---- MODULE Spec2Model ----
(***************************************************************************)
(* Hikvision ISAPI Events: the channel state machine (ChannelManager) with *)
(* its auto-off timers on the asyncio event loop, its timeout              *)
(* configuration and its listener lists.                                   *)
(*                                                                         *)
(* Python strings are sequences of one-character strings, so that          *)
(* str.lower() is computed character by character.  None is a value of its *)
(* own, distinct from the empty string.                                    *)
(***************************************************************************)
EXTENDS Integers, Sequences, FiniteSets, TLC

(* ------------------------------ bounds -------------------------------- *)

\* The clock of the event loop runs from 0 to MaxTime.
MaxTime == 3

\* TimerHandle objects that can be alive at once (ids 1..MaxHandles).
MaxHandles == 3

\* Credential computations under one challenge (DigestAuthState._nc).
MaxNc == 3

\* feed calls on one AlertStreamParser.
MaxChunks == 2

\* Consecutive failed connections of one alert stream.
MaxStreak == 7

\* The most feed calls made on one AlertStreamParser in the runs of the
\* extractor alone.
MaxFeeds == 4

\* The number of characters of the chunk of noise fed to the extractor.
NoiseLength == 33000

(* --------------------------- program constants ------------------------ *)

DEFAULT_OFF_DELAY_SECONDS == 30

MIN_OFF_DELAY_SECONDS == 0

MAX_OFF_DELAY_SECONDS == 1800

EVENT_TYPE_VMD == <<"V", "M", "D">>

\* Python's None (never equal to a string of the program).
None == <<"None">>

\* off_timer: TimerHandle | None = None
NoTimer == 0

ALERT_STREAM_PATH ==
    <<"/", "I", "S", "A", "P", "I", "/", "E", "v", "e", "n", "t", "/",
      "n", "o", "t", "i", "f", "i", "c", "a", "t", "i", "o", "n", "/",
      "a", "l", "e", "r", "t", "S", "t", "r", "e", "a", "m">>

DEVICE_INFO_PATH ==
    <<"/", "I", "S", "A", "P", "I", "/", "S", "y", "s", "t", "e", "m",
      "/", "d", "e", "v", "i", "c", "e", "I", "n", "f", "o">>

\* AlertStreamParser._start_token, _end_token
START_TOKEN ==
    <<"<", "E", "v", "e", "n", "t", "N", "o", "t", "i", "f", "i", "c",
      "a", "t", "i", "o", "n", "A", "l", "e", "r", "t">>

END_TOKEN ==
    <<"<", "/", "E", "v", "e", "n", "t", "N", "o", "t", "i", "f", "i",
      "c", "a", "t", "i", "o", "n", "A", "l", "e", "r", "t", ">">>

\* AlertStreamParser.feed: a buffer longer than BUFFER_LIMIT that holds no
\* start token is cut to its last BUFFER_KEEP characters.
BUFFER_LIMIT == 65536

BUFFER_KEEP == 32768

(* ------------------------------- strings ------------------------------ *)

EMPTY == <<>>

ACTIVE == <<"a", "c", "t", "i", "v", "e">>

INACTIVE == <<"i", "n", "a", "c", "t", "i", "v", "e">>

HUMAN == <<"h", "u", "m", "a", "n">>

VEHICLE == <<"v", "e", "h", "i", "c", "l", "e">>

UpperLetters ==
    <<"A", "B", "C", "D", "E", "F", "G", "H", "I", "J", "K", "L", "M",
      "N", "O", "P", "Q", "R", "S", "T", "U", "V", "W", "X", "Y", "Z">>

LowerLetters ==
    <<"a", "b", "c", "d", "e", "f", "g", "h", "i", "j", "k", "l", "m",
      "n", "o", "p", "q", "r", "s", "t", "u", "v", "w", "x", "y", "z">>

LowerChar(ch) ==
    IF \E i \in DOMAIN UpperLetters : UpperLetters[i] = ch
    THEN LowerLetters[CHOOSE i \in DOMAIN UpperLetters : UpperLetters[i] = ch]
    ELSE ch

\* str.lower()
Lower(s) == [i \in DOMAIN s |-> LowerChar(s[i])]

\* (value or ""): None and "" both give ""
OrEmpty(v) == IF v = None \/ v = EMPTY THEN EMPTY ELSE v

\* (value or None): "" gives None
OrNone(v) == IF v = EMPTY THEN None ELSE v

(* ------------------------------- inputs ------------------------------- *)

Channels == {1, 2}

StateListeners == {"e1", "e2"}

ChannelListeners == {"n1"}

CONF_DEFAULT_OFF_DELAY_SECONDS == "default_off_delay_seconds"

\* entry.data, as far as the manager reads it (the config flow requires the
\* default delay and accepts 0..1800).
EntryDataInputs ==
    { [k \in {CONF_DEFAULT_OFF_DELAY_SECONDS} |-> v] : v \in {2} }

\* initial_timeouts: what the timeout store held at setup.
InitialTimeoutInputs == { [c \in {} |-> 0] }

\* <<channel id, seconds>> passed to async_set_channel_timeout.
SetTimeoutInputs == { <<1, -1>>, <<1, 1>>, <<1, 1801>>, <<2, 1>> }

\* Channel lists passed to add_discovered_channels.
DiscoveryInputs == { <<>>, <<1>>, <<1, 2>> }

T1 == <<"T", "1">>

T2 == <<"T", "2">>

IntChannel(c) == [is_int |-> TRUE, value |-> c]

NoChannel == [is_int |-> FALSE, value |-> 0]

Event(ty, st, ch, tg, dt) ==
    [event_type |-> ty, event_state |-> st, channel_id |-> ch,
     target_type |-> tg, date_time |-> dt]

\* Events process_event drops: another event type, a missing type, a channel
\* id that is no integer.
DroppedEventInputs ==
    { Event(<<"v", "m", "d">>, ACTIVE, IntChannel(1), HUMAN, T1),
      Event(None, ACTIVE, IntChannel(2), HUMAN, T1),
      Event(EVENT_TYPE_VMD, ACTIVE, NoChannel, HUMAN, T1) }

\* The events of the runs with timers and timeout changes: active and
\* inactive for channel 1, active for channel 2, and dropped events.
EventInputs ==
    { Event(EVENT_TYPE_VMD, ACTIVE, IntChannel(1), HUMAN, T1),
      Event(EVENT_TYPE_VMD, INACTIVE, IntChannel(1), None, T2),
      Event(EVENT_TYPE_VMD, ACTIVE, IntChannel(2), VEHICLE, T1) }
    \cup DroppedEventInputs

\* The events of the runs about flags and diagnostic fields: active and
\* inactive in several spellings, with and without a target, and states that
\* are neither active nor inactive (another word, missing, empty).
FieldEventInputs ==
    { Event(EVENT_TYPE_VMD, ACTIVE, IntChannel(1), HUMAN, T1),
      Event(EVENT_TYPE_VMD, <<"A", "c", "t", "i", "v", "e">>, IntChannel(1),
            <<"V", "E", "H", "I", "C", "L", "E">>, T2),
      Event(EVENT_TYPE_VMD, ACTIVE, IntChannel(1), None, T1),
      Event(EVENT_TYPE_VMD, <<"I", "N", "A", "C", "T", "I", "V", "E">>,
            IntChannel(1), None, T2),
      Event(EVENT_TYPE_VMD, <<"I", "d", "l", "e">>, IntChannel(1),
            <<"H", "u", "m", "a", "n">>, T2),
      Event(EVENT_TYPE_VMD, None, IntChannel(1), None, None),
      Event(EVENT_TYPE_VMD, EMPTY, IntChannel(1), EMPTY, T1),
      Event(EVENT_TYPE_VMD, ACTIVE, IntChannel(2), HUMAN, T1),
      Event(EVENT_TYPE_VMD, INACTIVE, IntChannel(2), None, T1) }
    \cup DroppedEventInputs

\* The events of the runs with listeners: channel 2 is known by discovery
\* only.
NotifyEventInputs ==
    { Event(EVENT_TYPE_VMD, ACTIVE, IntChannel(1), HUMAN, T1),
      Event(EVENT_TYPE_VMD, INACTIVE, IntChannel(1), None, T2),
      Event(EVENT_TYPE_VMD, <<"I", "d", "l", "e">>, IntChannel(1), None, T1) }
    \cup DroppedEventInputs

\* The events of the runs that follow a timer to its expiry.
ExpiryEventInputs ==
    { Event(EVENT_TYPE_VMD, ACTIVE, IntChannel(1), HUMAN, T1),
      Event(EVENT_TYPE_VMD, INACTIVE, IntChannel(1), None, T2),
      Event(EVENT_TYPE_VMD, ACTIVE, IntChannel(2), HUMAN, T1) }

\* WWW-Authenticate headers of 401 responses.
\* Digest realm="r", nonce="n1": a digest challenge
HEADER_DIGEST_1 ==
    <<"D", "i", "g", "e", "s", "t", " ", "r", "e", "a", "l", "m", "=",
      "\"", "r", "\"", ",", " ", "n", "o", "n", "c", "e", "=", "\"", "n",
      "1", "\"">>

\* Digest qop="auth", nonce="n2", opaque="o", realm="r": another, its fields in another order, with qop and opaque
HEADER_DIGEST_2 ==
    <<"D", "i", "g", "e", "s", "t", " ", "q", "o", "p", "=", "\"", "a",
      "u", "t", "h", "\"", ",", " ", "n", "o", "n", "c", "e", "=", "\"",
      "n", "2", "\"", ",", " ", "o", "p", "a", "q", "u", "e", "=", "\"",
      "o", "\"", ",", " ", "r", "e", "a", "l", "m", "=", "\"", "r", "\"">>

\* DIGEST Realm=r,NONCE= n3 : unquoted values, upper-case scheme and keys
HEADER_DIGEST_BARE ==
    <<"D", "I", "G", "E", "S", "T", " ", "R", "e", "a", "l", "m", "=",
      "r", ",", "N", "O", "N", "C", "E", "=", " ", "n", "3", " ">>

\* Digest realm="r": a digest header without nonce
HEADER_DIGEST_NO_NONCE ==
    <<"D", "i", "g", "e", "s", "t", " ", "r", "e", "a", "l", "m", "=",
      "\"", "r", "\"">>

\* Digest realm="", nonce="n4": a digest challenge whose realm is the empty string
HEADER_DIGEST_EMPTY_REALM ==
    <<"D", "i", "g", "e", "s", "t", " ", "r", "e", "a", "l", "m", "=",
      "\"", "\"", ",", " ", "n", "o", "n", "c", "e", "=", "\"", "n", "4",
      "\"">>

\* Basic realm="r": not a digest scheme
HEADER_BASIC ==
    <<"B", "a", "s", "i", "c", " ", "r", "e", "a", "l", "m", "=", "\"",
      "r", "\"">>

\* The header argument of update_from_header: response.headers.get(...) is
\* None when the response carries no WWW-Authenticate header.
HeaderInputs ==
    { None, EMPTY, HEADER_DIGEST_1, HEADER_DIGEST_2, HEADER_DIGEST_BARE,
      HEADER_DIGEST_NO_NONCE, HEADER_DIGEST_EMPTY_REALM, HEADER_BASIC }

\* entry.data[CONF_USERNAME], entry.data[CONF_PASSWORD]
Username == <<"u">>

Password == <<"p">>

GET == <<"G", "E", "T">>

\* The first 16 hex digits of an MD5 over os.urandom and random.random():
\* any value.
CnonceInputs == { <<"c", "1">>, <<"c", "2">> }

\* response.status of the device's answers, and the WWW-Authenticate header
\* of its 401 answers.
StatusInputs == {200, 401, 404}

RejectionHeaderInputs ==
    { None, HEADER_DIGEST_1, HEADER_DIGEST_2, HEADER_DIGEST_EMPTY_REALM }

\* Bytes: a byte below 0x80 is written as its ASCII character, any other
\* byte as "x" and its two hexadecimal digits.
\* DOCUMENT_ACTIVE: an active VMD event of channel 1
\*   <EventNotificationAlert><eventType>VMD</eventType><eventState>active</eventState><channelID>1</channelID></EventNotificationAlert>
DOCUMENT_ACTIVE ==
    <<"<", "E", "v", "e", "n", "t", "N", "o", "t", "i", "f", "i", "c",
      "a", "t", "i", "o", "n", "A", "l", "e", "r", "t", ">", "<", "e",
      "v", "e", "n", "t", "T", "y", "p", "e", ">", "V", "M", "D", "<",
      "/", "e", "v", "e", "n", "t", "T", "y", "p", "e", ">", "<", "e",
      "v", "e", "n", "t", "S", "t", "a", "t", "e", ">", "a", "c", "t",
      "i", "v", "e", "<", "/", "e", "v", "e", "n", "t", "S", "t", "a",
      "t", "e", ">", "<", "c", "h", "a", "n", "n", "e", "l", "I", "D",
      ">", "1", "<", "/", "c", "h", "a", "n", "n", "e", "l", "I", "D",
      ">", "<", "/", "E", "v", "e", "n", "t", "N", "o", "t", "i", "f",
      "i", "c", "a", "t", "i", "o", "n", "A", "l", "e", "r", "t", ">">>

\* DOCUMENT_NAMED: an event whose channel name has a character of two bytes (C3 A9)
\*   <EventNotificationAlert><eventType>VMD</eventType><channelID>1</channelID><channelName>Café</channelName></EventNotificationAlert>
DOCUMENT_NAMED ==
    <<"<", "E", "v", "e", "n", "t", "N", "o", "t", "i", "f", "i", "c",
      "a", "t", "i", "o", "n", "A", "l", "e", "r", "t", ">", "<", "e",
      "v", "e", "n", "t", "T", "y", "p", "e", ">", "V", "M", "D", "<",
      "/", "e", "v", "e", "n", "t", "T", "y", "p", "e", ">", "<", "c",
      "h", "a", "n", "n", "e", "l", "I", "D", ">", "1", "<", "/", "c",
      "h", "a", "n", "n", "e", "l", "I", "D", ">", "<", "c", "h", "a",
      "n", "n", "e", "l", "N", "a", "m", "e", ">", "C", "a", "f", "xC3",
      "xA9", "<", "/", "c", "h", "a", "n", "n", "e", "l", "N", "a", "m",
      "e", ">", "<", "/", "E", "v", "e", "n", "t", "N", "o", "t", "i",
      "f", "i", "c", "a", "t", "i", "o", "n", "A", "l", "e", "r", "t",
      ">">>

\* The notification documents a device sends, as the bytes of their UTF-8
\* encoding.
DocumentInputs == { DOCUMENT_ACTIVE, DOCUMENT_NAMED }

CONF_RECONNECT_DELAY_SECONDS == "reconnect_delay_seconds"

DEFAULT_RECONNECT_DELAY_SECONDS == 5

\* The largest delay the backoff doubles to.
MAX_BACKOFF_SECONDS == 60

\* The largest reconnect delay the config flow accepts: vol.Range(min=1,
\* max=300).
MAX_RECONNECT_DELAY_SECONDS == 300

\* entry.data, as far as _run_stream reads it: without a reconnect delay,
\* with one below the least delay, and with the largest the config flow
\* accepts.
StreamEntryDataInputs ==
    { [k \in {} |-> 0], [k \in {CONF_RECONNECT_DELAY_SECONDS} |-> 0],
      [k \in {CONF_RECONNECT_DELAY_SECONDS} |-> MAX_RECONNECT_DELAY_SECONDS] }

\* DOCUMENT_ACTIVE_1: an active motion event of channel 1, a human, at T1
\*   <EventNotificationAlert><eventType>VMD</eventType><eventState>active</eventState><channelID>1</channelID><targetType>human</targetType><dateTime>T1</dateTime></EventNotificationAlert>
DOCUMENT_ACTIVE_1 ==
    <<"<", "E", "v", "e", "n", "t", "N", "o", "t", "i", "f", "i", "c",
      "a", "t", "i", "o", "n", "A", "l", "e", "r", "t", ">", "<", "e",
      "v", "e", "n", "t", "T", "y", "p", "e", ">", "V", "M", "D", "<",
      "/", "e", "v", "e", "n", "t", "T", "y", "p", "e", ">", "<", "e",
      "v", "e", "n", "t", "S", "t", "a", "t", "e", ">", "a", "c", "t",
      "i", "v", "e", "<", "/", "e", "v", "e", "n", "t", "S", "t", "a",
      "t", "e", ">", "<", "c", "h", "a", "n", "n", "e", "l", "I", "D",
      ">", "1", "<", "/", "c", "h", "a", "n", "n", "e", "l", "I", "D",
      ">", "<", "t", "a", "r", "g", "e", "t", "T", "y", "p", "e", ">",
      "h", "u", "m", "a", "n", "<", "/", "t", "a", "r", "g", "e", "t",
      "T", "y", "p", "e", ">", "<", "d", "a", "t", "e", "T", "i", "m",
      "e", ">", "T", "1", "<", "/", "d", "a", "t", "e", "T", "i", "m",
      "e", ">", "<", "/", "E", "v", "e", "n", "t", "N", "o", "t", "i",
      "f", "i", "c", "a", "t", "i", "o", "n", "A", "l", "e", "r", "t",
      ">">>

\* DOCUMENT_INACTIVE_1: an inactive motion event of channel 1 at T2
\*   <EventNotificationAlert><eventType>VMD</eventType><eventState>inactive</eventState><channelID>1</channelID><dateTime>T2</dateTime></EventNotificationAlert>
DOCUMENT_INACTIVE_1 ==
    <<"<", "E", "v", "e", "n", "t", "N", "o", "t", "i", "f", "i", "c",
      "a", "t", "i", "o", "n", "A", "l", "e", "r", "t", ">", "<", "e",
      "v", "e", "n", "t", "T", "y", "p", "e", ">", "V", "M", "D", "<",
      "/", "e", "v", "e", "n", "t", "T", "y", "p", "e", ">", "<", "e",
      "v", "e", "n", "t", "S", "t", "a", "t", "e", ">", "i", "n", "a",
      "c", "t", "i", "v", "e", "<", "/", "e", "v", "e", "n", "t", "S",
      "t", "a", "t", "e", ">", "<", "c", "h", "a", "n", "n", "e", "l",
      "I", "D", ">", "1", "<", "/", "c", "h", "a", "n", "n", "e", "l",
      "I", "D", ">", "<", "d", "a", "t", "e", "T", "i", "m", "e", ">",
      "T", "2", "<", "/", "d", "a", "t", "e", "T", "i", "m", "e", ">",
      "<", "/", "E", "v", "e", "n", "t", "N", "o", "t", "i", "f", "i",
      "c", "a", "t", "i", "o", "n", "A", "l", "e", "r", "t", ">">>

\* DOCUMENT_VIDEOLOSS_2: an active event of another type, of channel 2
\*   <EventNotificationAlert><eventType>videoloss</eventType><eventState>active</eventState><channelID>2</channelID><dateTime>T1</dateTime></EventNotificationAlert>
DOCUMENT_VIDEOLOSS_2 ==
    <<"<", "E", "v", "e", "n", "t", "N", "o", "t", "i", "f", "i", "c",
      "a", "t", "i", "o", "n", "A", "l", "e", "r", "t", ">", "<", "e",
      "v", "e", "n", "t", "T", "y", "p", "e", ">", "v", "i", "d", "e",
      "o", "l", "o", "s", "s", "<", "/", "e", "v", "e", "n", "t", "T",
      "y", "p", "e", ">", "<", "e", "v", "e", "n", "t", "S", "t", "a",
      "t", "e", ">", "a", "c", "t", "i", "v", "e", "<", "/", "e", "v",
      "e", "n", "t", "S", "t", "a", "t", "e", ">", "<", "c", "h", "a",
      "n", "n", "e", "l", "I", "D", ">", "2", "<", "/", "c", "h", "a",
      "n", "n", "e", "l", "I", "D", ">", "<", "d", "a", "t", "e", "T",
      "i", "m", "e", ">", "T", "1", "<", "/", "d", "a", "t", "e", "T",
      "i", "m", "e", ">", "<", "/", "E", "v", "e", "n", "t", "N", "o",
      "t", "i", "f", "i", "c", "a", "t", "i", "o", "n", "A", "l", "e",
      "r", "t", ">">>

\* DOCUMENT_UNCLOSED: a motion event whose channelID element is not closed
\*   <EventNotificationAlert><eventType>VMD</eventType><eventState>active</eventState><channelID>1</EventNotificationAlert>
DOCUMENT_UNCLOSED ==
    <<"<", "E", "v", "e", "n", "t", "N", "o", "t", "i", "f", "i", "c",
      "a", "t", "i", "o", "n", "A", "l", "e", "r", "t", ">", "<", "e",
      "v", "e", "n", "t", "T", "y", "p", "e", ">", "V", "M", "D", "<",
      "/", "e", "v", "e", "n", "t", "T", "y", "p", "e", ">", "<", "e",
      "v", "e", "n", "t", "S", "t", "a", "t", "e", ">", "a", "c", "t",
      "i", "v", "e", "<", "/", "e", "v", "e", "n", "t", "S", "t", "a",
      "t", "e", ">", "<", "c", "h", "a", "n", "n", "e", "l", "I", "D",
      ">", "1", "<", "/", "E", "v", "e", "n", "t", "N", "o", "t", "i",
      "f", "i", "c", "a", "t", "i", "o", "n", "A", "l", "e", "r", "t",
      ">">>

\* DOCUMENT_NO_CHANNEL: an active motion event whose channel id is no integer
\*   <EventNotificationAlert><eventType>VMD</eventType><eventState>active</eventState><channelID>abc</channelID><dateTime>T1</dateTime></EventNotificationAlert>
DOCUMENT_NO_CHANNEL ==
    <<"<", "E", "v", "e", "n", "t", "N", "o", "t", "i", "f", "i", "c",
      "a", "t", "i", "o", "n", "A", "l", "e", "r", "t", ">", "<", "e",
      "v", "e", "n", "t", "T", "y", "p", "e", ">", "V", "M", "D", "<",
      "/", "e", "v", "e", "n", "t", "T", "y", "p", "e", ">", "<", "e",
      "v", "e", "n", "t", "S", "t", "a", "t", "e", ">", "a", "c", "t",
      "i", "v", "e", "<", "/", "e", "v", "e", "n", "t", "S", "t", "a",
      "t", "e", ">", "<", "c", "h", "a", "n", "n", "e", "l", "I", "D",
      ">", "a", "b", "c", "<", "/", "c", "h", "a", "n", "n", "e", "l",
      "I", "D", ">", "<", "d", "a", "t", "e", "T", "i", "m", "e", ">",
      "T", "1", "<", "/", "d", "a", "t", "e", "T", "i", "m", "e", ">",
      "<", "/", "E", "v", "e", "n", "t", "N", "o", "t", "i", "f", "i",
      "c", "a", "t", "i", "o", "n", "A", "l", "e", "r", "t", ">">>

\* DOCUMENT_OTHER_ROOT: a well-formed document with another root
\*   <ResponseStatus><eventType>VMD</eventType><eventState>active</eventState><channelID>1</channelID></ResponseStatus>
DOCUMENT_OTHER_ROOT ==
    <<"<", "R", "e", "s", "p", "o", "n", "s", "e", "S", "t", "a", "t",
      "u", "s", ">", "<", "e", "v", "e", "n", "t", "T", "y", "p", "e",
      ">", "V", "M", "D", "<", "/", "e", "v", "e", "n", "t", "T", "y",
      "p", "e", ">", "<", "e", "v", "e", "n", "t", "S", "t", "a", "t",
      "e", ">", "a", "c", "t", "i", "v", "e", "<", "/", "e", "v", "e",
      "n", "t", "S", "t", "a", "t", "e", ">", "<", "c", "h", "a", "n",
      "n", "e", "l", "I", "D", ">", "1", "<", "/", "c", "h", "a", "n",
      "n", "e", "l", "I", "D", ">", "<", "/", "R", "e", "s", "p", "o",
      "n", "s", "e", "S", "t", "a", "t", "u", "s", ">">>

\* The chunks of a stream of events: one document, and two documents of
\* channel 1 in either order.
EventChunkInputs ==
    { DOCUMENT_ACTIVE_1, DOCUMENT_INACTIVE_1,
      DOCUMENT_ACTIVE_1 \o DOCUMENT_INACTIVE_1,
      DOCUMENT_INACTIVE_1 \o DOCUMENT_ACTIVE_1 }

\* Chunks whose document does not parse, and whose event has no integer
\* channel id.
MalformedChunkInputs == { DOCUMENT_UNCLOSED, DOCUMENT_NO_CHANNEL }

\* Documents parse_event_notification returns None for.
MalformedDocumentInputs == { DOCUMENT_UNCLOSED, DOCUMENT_OTHER_ROOT, EMPTY }

\* The chunks of the runs of stream and manager together.
DeliverChunkInputs ==
    EventChunkInputs \cup MalformedChunkInputs \cup { DOCUMENT_VIDEOLOSS_2 }

\* entry.data of the runs of stream and manager together: no reconnect delay.
DeliverEntryData == [k \in {} |-> 0]

\* The chunks an open alert stream delivers: a whole document, and no bytes.
StreamChunkInputs == { DOCUMENT_ACTIVE, <<>> }

\* The WWW-Authenticate header of a 401 to the alert stream request: none,
\* and two challenges.
StreamRejectionHeaderInputs == { None, HEADER_DIGEST_1, HEADER_DIGEST_2 }

\* secrets.token_hex(8) while the alert stream runs.
StreamCnonceInputs == { <<"c", "1">> }

\* What discover_channels returned at setup.
StreamDiscoveryInputs == { <<1>> }

(* -------------------------------- state ------------------------------- *)

VARIABLES
    states,            \* ChannelManager._states: channel id -> ChannelState
    timeouts,          \* ChannelManager._timeouts: channel id -> seconds
    entry_data,        \* ChannelManager.entry.data
    entity_listeners,  \* ChannelManager._entity_listeners (a list)
    channel_listeners, \* ChannelManager._channel_listeners (a list)
    loop_timers,       \* the loop's TimerHandles: scheduled, not cancelled, not run
    now,               \* loop.time()
    calls,             \* the listener calls made by the last operation, in order
    requested,         \* history: the seconds last passed to async_set_channel_timeout
    hist,              \* history: per channel, what its latest events and timers did
    digest,            \* HikvisionIsapiClient._digest: a DigestAuthState
    auth,              \* the last DigestAuthState call, its result, and history
    probe,             \* a validate_device_info() call of the config flow
    parser,            \* an AlertStreamParser: its buffer
    wire,              \* the bytes a connection delivers to it, and what it emitted
    stop_event,        \* RuntimeData.stop_event: is it set
    task               \* RuntimeData.task: the task running _run_stream

\* The ChannelManager, the loop's clock and timers, and their history.
manager_vars ==
    <<states, timeouts, entry_data, entity_listeners, channel_listeners,
      loop_timers, now, calls, requested, hist>>

\* The state outside the ChannelManager: the ISAPI client and what uses it.
\* The supervisor of the alert stream.
stream_vars == <<stop_event, task>>

client_vars == <<digest, auth, probe, parser, wire, stream_vars>>

vars == <<manager_vars, client_vars>>

\* ChannelState(channel_id=channel_id)
ChannelState(channel_id) ==
    [channel_id |-> channel_id,
     motion_on |-> FALSE, human_on |-> FALSE, vehicle_on |-> FALSE,
     last_event_datetime |-> None, last_event_state |-> None,
     last_target_type |-> None, last_event_type |-> None,
     off_timer |-> NoTimer]

\* The part of the program an operation threads through its calls: the channel
\* states, the loop's timers and the listener calls made so far.
Mgr == [states |-> states, loop_timers |-> loop_timers, calls |-> <<>>]

Call(kind, listener, channel_id, seen) ==
    [kind |-> kind, listener |-> listener, channel_id |-> channel_id, seen |-> seen]

\* for callback in listeners: callback(channel_id); each call sees the state
\* of the channel as it is when the call is made.
CallAll(m, kind, listeners, channel_id) ==
    [m EXCEPT !.calls =
        @ \o [i \in DOMAIN listeners |->
                Call(kind, listeners[i], channel_id, m.states[channel_id])]]

\* Mutant: the "new channel" listeners are called on every reference.
get_state_always_notifies(m, channel_id) ==
    CallAll(IF channel_id \in DOMAIN m.states THEN m
            ELSE [m EXCEPT !.states =
                     [c \in DOMAIN m.states \cup {channel_id} |->
                        IF c = channel_id THEN ChannelState(channel_id)
                        ELSE m.states[c]]],
            "channel", channel_listeners, channel_id)

get_state(m, channel_id) ==
    IF channel_id \in DOMAIN m.states
    THEN m
    ELSE CallAll([m EXCEPT !.states =
                     [c \in DOMAIN m.states \cup {channel_id} |->
                        IF c = channel_id THEN ChannelState(channel_id)
                        ELSE m.states[c]]],
                 "channel", channel_listeners, channel_id)

_notify_state(m, channel_id) ==
    CallAll(m, "state", entity_listeners, channel_id)

Max(a, b) == IF a >= b THEN a ELSE b

Min(a, b) == IF a <= b THEN a ELSE b

_clamp_timeout(seconds) ==
    Max(MIN_OFF_DELAY_SECONDS, Min(MAX_OFF_DELAY_SECONDS, seconds))

get_channel_timeout(channel_id) ==
    LET default_delay ==
            IF CONF_DEFAULT_OFF_DELAY_SECONDS \in DOMAIN entry_data
            THEN entry_data[CONF_DEFAULT_OFF_DELAY_SECONDS]
            ELSE DEFAULT_OFF_DELAY_SECONDS
    IN  IF channel_id \in DOMAIN timeouts THEN timeouts[channel_id]
        ELSE _clamp_timeout(default_delay)

\* TimerHandle.cancel(): the loop never runs the handle's callback.
HandleCancel(m, id) ==
    [m EXCEPT !.loop_timers = {h \in @ : h.id # id}]

\* Mutant: the reference is dropped and the handle is left on the loop.
_cancel_timer_drops_reference(m, channel_id) ==
    [m EXCEPT !.states[channel_id].off_timer = NoTimer]

_cancel_timer(m, channel_id) ==
    LET id == m.states[channel_id].off_timer
        m1 == IF id # NoTimer THEN HandleCancel(m, id) ELSE m
    IN  [m1 EXCEPT !.states[channel_id].off_timer = NoTimer]

\* Handle ids in use: scheduled on the loop or referenced by a channel state.
UsedHandles(m) ==
    {h.id : h \in m.loop_timers}
    \cup {m.states[c].off_timer : c \in DOMAIN m.states}

FreeHandles(m) == (1..MaxHandles) \ UsedHandles(m)

\* loop.call_later(delay, self._timer_expire, channel_id): a new TimerHandle
\* due at loop.time() + delay.
CallLater(m, delay, channel_id) ==
    LET id == CHOOSE i \in FreeHandles(m) : \A j \in FreeHandles(m) : i <= j
    IN  [m EXCEPT !.loop_timers = @ \cup {[id |-> id, ch |-> channel_id,
                                           when |-> now + delay]},
                  !.states[channel_id].off_timer = id]

\* Mutant: the new timer is scheduled without cancelling the pending one.
_schedule_off_without_cancel(m, channel_id) ==
    LET m1 == get_state(m, channel_id)
        delay == get_channel_timeout(channel_id)
    IN  IF delay <= 0 THEN m1 ELSE CallLater(m1, delay, channel_id)

\* Mutant: only a negative delay schedules no timer.
_schedule_off_at_zero(m, channel_id) ==
    LET m1 == get_state(m, channel_id)
        m2 == _cancel_timer(m1, channel_id)
        delay == get_channel_timeout(channel_id)
    IN  IF delay < 0 THEN m2 ELSE CallLater(m2, delay, channel_id)

_schedule_off(m, channel_id) ==
    LET m1 == get_state(m, channel_id)
        m2 == _cancel_timer(m1, channel_id)
        delay == get_channel_timeout(channel_id)
    IN  IF delay <= 0 THEN m2 ELSE CallLater(m2, delay, channel_id)

\* Mutant: the expiry clears the motion flag alone.
_timer_expire_clears_motion_only(m, channel_id) ==
    LET m1 == get_state(m, channel_id)
        m2 == [m1 EXCEPT !.states[channel_id].motion_on = FALSE,
                         !.states[channel_id].last_event_state = INACTIVE]
        m3 == _cancel_timer(m2, channel_id)
    IN  _notify_state(m3, channel_id)

_timer_expire(m, channel_id) ==
    LET m1 == get_state(m, channel_id)
        m2 == [m1 EXCEPT !.states[channel_id].motion_on = FALSE,
                         !.states[channel_id].human_on = FALSE,
                         !.states[channel_id].vehicle_on = FALSE,
                         !.states[channel_id].last_event_state = INACTIVE]
        m3 == _cancel_timer(m2, channel_id)
    IN  _notify_state(m3, channel_id)

\* Mutant: the target flags are assigned from this event's target alone.
on_active_overwrites_flags(m, channel_id, target_type) ==
    _schedule_off(
        [m EXCEPT !.states[channel_id].motion_on = TRUE,
                  !.states[channel_id].human_on = (target_type = HUMAN),
                  !.states[channel_id].vehicle_on = (target_type = VEHICLE)],
        channel_id)

\* event_state == "active": the flags of the event, then the timer.
on_active(m, channel_id, target_type) ==
    _schedule_off(
        [m EXCEPT !.states[channel_id].motion_on = TRUE,
                  !.states[channel_id].human_on =
                      IF target_type = HUMAN THEN TRUE ELSE @,
                  !.states[channel_id].vehicle_on =
                      IF target_type # HUMAN /\ target_type = VEHICLE
                      THEN TRUE ELSE @],
        channel_id)

\* Mutant: the flags are cleared and the pending timer is left alone.
on_inactive_keeps_timer(m, channel_id) ==
    [m EXCEPT !.states[channel_id].motion_on = FALSE,
              !.states[channel_id].human_on = FALSE,
              !.states[channel_id].vehicle_on = FALSE]

\* Mutant: the motion flag is cleared and the target flags are left alone.
on_inactive_clears_motion_only(m, channel_id) ==
    _cancel_timer([m EXCEPT !.states[channel_id].motion_on = FALSE], channel_id)

\* event_state == "inactive"
on_inactive(m, channel_id) ==
    _cancel_timer(
        [m EXCEPT !.states[channel_id].motion_on = FALSE,
                  !.states[channel_id].human_on = FALSE,
                  !.states[channel_id].vehicle_on = FALSE],
        channel_id)

\* The diagnostic fields of the channel take the event's values.
set_last_event(m, channel_id, event, event_state, target_type) ==
    [m EXCEPT !.states[channel_id].last_event_datetime = event.date_time,
              !.states[channel_id].last_event_state = OrNone(event_state),
              !.states[channel_id].last_target_type = OrNone(target_type),
              !.states[channel_id].last_event_type = event.event_type]

\* Mutant: the state listeners are called only when a flag changed.
process_event_notifies_on_change(m, event) ==
    IF event.event_type # EVENT_TYPE_VMD THEN m
    ELSE IF ~event.channel_id.is_int THEN m
    ELSE
      LET channel_id == event.channel_id.value
          m1 == get_state(m, channel_id)
          event_state == Lower(OrEmpty(event.event_state))
          target_type == Lower(OrEmpty(event.target_type))
          m2 == set_last_event(m1, channel_id, event, event_state, target_type)
          m3 == IF event_state = ACTIVE
                THEN on_active(m2, channel_id, target_type)
                ELSE IF event_state = INACTIVE
                THEN on_inactive(m2, channel_id)
                ELSE m2
          changed ==
              \E f \in {"motion_on", "human_on", "vehicle_on"} :
                 m3.states[channel_id][f] # m1.states[channel_id][f]
      IN  IF changed THEN _notify_state(m3, channel_id) ELSE m3

\* Mutant: every state other than "active" is handled as "inactive".
process_event_else_inactive(m, event) ==
    IF event.event_type # EVENT_TYPE_VMD THEN m
    ELSE IF ~event.channel_id.is_int THEN m
    ELSE
      LET channel_id == event.channel_id.value
          m1 == get_state(m, channel_id)
          event_state == Lower(OrEmpty(event.event_state))
          target_type == Lower(OrEmpty(event.target_type))
          m2 == set_last_event(m1, channel_id, event, event_state, target_type)
          m3 == IF event_state = ACTIVE
                THEN on_active(m2, channel_id, target_type)
                ELSE on_inactive(m2, channel_id)
      IN  _notify_state(m3, channel_id)

\* Mutant: events of every type are processed.
process_event_any_type(m, event) ==
    IF ~event.channel_id.is_int THEN m
    ELSE
      LET channel_id == event.channel_id.value
          m1 == get_state(m, channel_id)
          event_state == Lower(OrEmpty(event.event_state))
          target_type == Lower(OrEmpty(event.target_type))
          m2 == set_last_event(m1, channel_id, event, event_state, target_type)
          m3 == IF event_state = ACTIVE
                THEN on_active(m2, channel_id, target_type)
                ELSE IF event_state = INACTIVE
                THEN on_inactive(m2, channel_id)
                ELSE m2
      IN  _notify_state(m3, channel_id)

process_event(m, event) ==
    IF event.event_type # EVENT_TYPE_VMD THEN m
    ELSE IF ~event.channel_id.is_int THEN m
    ELSE
      LET channel_id == event.channel_id.value
          m1 == get_state(m, channel_id)
          event_state == Lower(OrEmpty(event.event_state))
          target_type == Lower(OrEmpty(event.target_type))
          m2 == set_last_event(m1, channel_id, event, event_state, target_type)
          m3 == IF event_state = ACTIVE
                THEN on_active(m2, channel_id, target_type)
                ELSE IF event_state = INACTIVE
                THEN on_inactive(m2, channel_id)
                ELSE m2
      IN  _notify_state(m3, channel_id)

RECURSIVE add_discovered_channels(_, _)
add_discovered_channels(m, channels) ==
    IF channels = <<>> THEN m
    ELSE add_discovered_channels(get_state(m, Head(channels)), Tail(channels))

RECURSIVE CancelAll(_, _)
CancelAll(m, cs) ==
    IF cs = {} THEN m
    ELSE LET c == CHOOSE x \in cs : TRUE
         IN  CancelAll(_cancel_timer(m, c), cs \ {c})

\* Mutant: the timers are left pending.
shutdown_keeps_timers(m) == m

shutdown(m) == CancelAll(m, DOMAIN m.states)

(* ------------------------ strings of the client ----------------------- *)

Digits == <<"0", "1", "2", "3", "4", "5", "6", "7", "8", "9">>

HexDigits ==
    <<"0", "1", "2", "3", "4", "5", "6", "7", "8", "9",
      "a", "b", "c", "d", "e", "f">>

\* \w of _DIGEST_PAIR_RE
WordChars ==
    {UpperLetters[i] : i \in DOMAIN UpperLetters}
      \cup {LowerLetters[i] : i \in DOMAIN LowerLetters}
      \cup {Digits[i] : i \in DOMAIN Digits} \cup {"_"}

\* What str.strip() removes.
WhiteSpace == {" ", "\t", "\n", "\r"}

Least(S) == CHOOSE x \in S : \A y \in S : x <= y

Greatest(S) == CHOOSE x \in S : \A y \in S : x >= y

\* str.find(t, start): the least index (from 0) at or after start where t
\* occurs in s, -1 when there is none.
Find(s, t, start) ==
    LET hits == {i \in start..(Len(s) - Len(t)) :
                    SubSeq(s, i + 1, i + Len(t)) = t}
    IN  IF hits = {} THEN -1 ELSE Least(hits)

\* str.strip()
Strip(s) ==
    LET keep == {i \in DOMAIN s : s[i] \notin WhiteSpace}
    IN  IF keep = {} THEN EMPTY ELSE SubSeq(s, Least(keep), Greatest(keep))

\* f"{n:08x}"
Hex8(n) == [i \in 1..8 |-> HexDigits[((n \div (16 ^ (8 - i))) % 16) + 1]]

\* hashlib.md5(...).hexdigest(): a value determined by the text hashed.
Md5(text) == <<"md5", text>>

(* ------------------------- digest authentication ---------------------- *)

REALM == <<"r", "e", "a", "l", "m">>

NONCE == <<"n", "o", "n", "c", "e">>

OPAQUE == <<"o", "p", "a", "q", "u", "e">>

DIGEST == <<"d", "i", "g", "e", "s", "t">>

\* DigestAuthState.__init__
DigestAuthState(username, password) ==
    [username |-> username, password |-> password,
     challenge |-> [k \in {} |-> EMPTY], nc |-> 0]

\* The characters of s from position i (from 1) on, up to the first one that
\* is not in cs: how far a greedy character class matches.
RunLength(s, i, cs) ==
    LET stops == {j \in i..Len(s) : s[j] \notin cs}
    IN  IF stops = {} THEN Max(0, Len(s) - i + 1) ELSE Least(stops) - i

\* The characters of s from position i on, up to the first comma: [^,]+
RunToComma(s, i) ==
    LET stops == {j \in i..Len(s) : s[j] = ","}
    IN  IF stops = {} THEN Max(0, Len(s) - i + 1) ELSE Least(stops) - i

NoMatch == [matched |-> FALSE]

\* The value alternative of _DIGEST_PAIR_RE at position v of payload, after
\* key and "=": "([^"]*)" when a closing quote follows (closing: where
\* quotes follow), [^,]+ (bare characters long) otherwise.  value is
\* group(2) or group(3); next is the position after the match.
PairValue(payload, key, v, closing, bare) ==
    IF v <= Len(payload) /\ payload[v] = "\"" /\ closing # {}
    THEN [matched |-> TRUE, key |-> key,
          value |-> SubSeq(payload, v + 1, Least(closing) - 1),
          next |-> Least(closing) + 1]
    ELSE IF bare > 0
    THEN [matched |-> TRUE, key |-> key,
          value |-> SubSeq(payload, v, v + bare - 1), next |-> v + bare]
    ELSE NoMatch

\* (\w+)= at position i of payload, w being how far \w+ matches there.
PairAfterKey(payload, i, w) ==
    IF w = 0 \/ i + w > Len(payload) THEN NoMatch
    ELSE IF payload[i + w] # "=" THEN NoMatch
    ELSE PairValue(payload, SubSeq(payload, i, i + w - 1), i + w + 1,
                   {j \in (i + w + 2)..Len(payload) : payload[j] = "\""},
                   RunToComma(payload, i + w + 1))

\* _DIGEST_PAIR_RE matched at position i of payload:
\*   (\w+)=(?:"([^"]*)"|([^,]+))
PairMatchAt(payload, i) ==
    PairAfterKey(payload, i, RunLength(payload, i, WordChars))

RECURSIVE finditer(_, _)
RECURSIVE MatchesFrom(_, _, _)

\* The matches of finditer from position i on, match being what the pattern
\* matches at i.
MatchesFrom(payload, i, match) ==
    IF match.matched
    THEN <<match>> \o finditer(payload, match.next)
    ELSE finditer(payload, i + 1)

\* _DIGEST_PAIR_RE.finditer(payload), scanning from position i.
finditer(payload, i) ==
    IF i > Len(payload) THEN <<>>
    ELSE MatchesFrom(payload, i, PairMatchAt(payload, i))

\* The dict the loop of update_from_header builds: a later pair replaces an
\* earlier one of the same lower-cased key.
ChallengeOf(matches) ==
    [k \in {Lower(matches[j].key) : j \in DOMAIN matches} |->
        Strip(matches[Greatest({j \in DOMAIN matches :
                                   Lower(matches[j].key) = k})].value)]

\* header.split(" ", 1)[1] if " " in header else header
Payload(header) ==
    LET space == Find(header, <<" ">>, 0)
    IN  IF space >= 0 THEN SubSeq(header, space + 2, Len(header)) ELSE header

store_challenge_keeps_count(d, challenge) ==
    IF REALM \in DOMAIN challenge /\ NONCE \in DOMAIN challenge
    THEN [d EXCEPT !.challenge = challenge]
    ELSE d

\* The end of update_from_header: the parsed challenge replaces the stored
\* one when it has a realm and a nonce.
store_challenge(d, challenge) ==
    IF REALM \in DOMAIN challenge /\ NONCE \in DOMAIN challenge
    THEN [d EXCEPT !.challenge = challenge, !.nc = 0]
    ELSE d

\* DigestAuthState.update_from_header
update_from_header(d, header) ==
    IF header = None \/ header = EMPTY THEN d
    ELSE IF Find(Lower(header), DIGEST, 0) < 0 THEN d
    ELSE store_challenge(d, ChallengeOf(finditer(Payload(header), 1)))

\* dict.get(key): None when the key is absent.
Get(dict, key) == IF key \in DOMAIN dict THEN dict[key] ELSE None

\* not value: None and "" are false.
Falsy(value) == value = None \/ value = EMPTY

\* The Authorization header: "Digest " + ", ".join(parts), kept as the
\* scheme and the list of its name=value parts.
Authorization(parts) == <<"Digest", parts>>

\* DigestAuthState.build_authorization: the state it leaves and the value it
\* returns.  cnonce is the random client nonce it draws.
build_authorization(d, method, uri, cnonce) ==
    LET realm == Get(d.challenge, REALM)
        nonce == Get(d.challenge, NONCE)
        opaque == Get(d.challenge, OPAQUE)
        nc == d.nc + 1
        nc_value == Hex8(nc)
        ha1 == Md5(<<d.username, realm, d.password>>)
        ha2 == Md5(<<method, uri>>)
        response == Md5(<<ha1, nonce, nc_value, cnonce, "auth", ha2>>)
        parts == << <<"username", d.username>>, <<"realm", realm>>,
                    <<"nonce", nonce>>, <<"uri", uri>>,
                    <<"algorithm", "MD5">>, <<"response", response>>,
                    <<"qop", "auth">>, <<"nc", nc_value>>,
                    <<"cnonce", cnonce>> >>
    IN  IF Falsy(realm) \/ Falsy(nonce)
        THEN [digest |-> d, value |-> None]
        ELSE [digest |-> [d EXCEPT !.nc = nc],
              value |-> Authorization(
                  IF Falsy(opaque) THEN parts
                  ELSE Append(parts, <<"opaque", opaque>>))]

(* ---------------------------- the extractor --------------------------- *)

\* The lead bytes of two-byte UTF-8 sequences and the continuation bytes that
\* occur in the inputs, and the character a sequence encodes.
LeadBytes == {"xC3"}

ContinuationBytes == {"xA9"}

TwoByteChar(lead, continuation) == "U+00E9"

IsAscii(byte) == byte \notin LeadBytes \cup ContinuationBytes

\* What the decoder makes of the byte at position i: the byte's character,
\* the character of the two-byte sequence that starts there, or nothing
\* (errors="ignore") for a continuation byte, which either belongs to the
\* sequence before it or is invalid, and for a lead byte that no
\* continuation byte follows.
Dropped == "dropped"

DecodedAt(bytes, i) ==
    IF IsAscii(bytes[i]) THEN bytes[i]
    ELSE IF /\ bytes[i] \in LeadBytes
            /\ i < Len(bytes)
            /\ bytes[i + 1] \in ContinuationBytes
    THEN TwoByteChar(bytes[i], bytes[i + 1])
    ELSE Dropped

IsDecoded(char) == char # Dropped

\* bytes.decode("utf-8", errors="ignore")
decode(bytes) ==
    SelectSeq([i \in DOMAIN bytes |-> DecodedAt(bytes, i)], IsDecoded)

\* buffer[n:]
From(buffer, n) == SubSeq(buffer, n + 1, Len(buffer))

\* buffer[-n:]
Last(buffer, n) == SubSeq(buffer, Max(1, Len(buffer) - n + 1), Len(buffer))

\* What feed leaves: the buffer and the documents it returns.
Fed(buffer, docs) == [buffer |-> buffer, docs |-> docs]

RECURSIVE extract(_, _)
RECURSIVE extract_from(_, _, _)
RECURSIVE extract_span(_, _, _, _)

\* Mutant: feed returns after the first document it found.
extract_span_once(buffer, docs, start, end) ==
    IF end < 0
    THEN Fed(IF start > 0 THEN From(buffer, start) ELSE buffer, docs)
    ELSE Fed(From(buffer, end + Len(END_TOKEN)),
             Append(docs, SubSeq(buffer, start + 1, end + Len(END_TOKEN))))

\* The loop of feed once start and end are found (lines 97-105).
extract_span(buffer, docs, start, end) ==
    IF end < 0
    THEN Fed(IF start > 0 THEN From(buffer, start) ELSE buffer, docs)
    ELSE extract(From(buffer, end + Len(END_TOKEN)),
                 Append(docs, SubSeq(buffer, start + 1, end + Len(END_TOKEN))))

\* The loop of feed once start is found (lines 92-97).
extract_from(buffer, docs, start) ==
    IF start < 0
    THEN Fed(IF Len(buffer) > BUFFER_LIMIT THEN Last(buffer, BUFFER_KEEP)
             ELSE buffer, docs)
    ELSE extract_span(buffer, docs, start, Find(buffer, END_TOKEN, start))

\* The while loop of feed (lines 90-105).
extract(buffer, docs) ==
    extract_from(buffer, docs, Find(buffer, START_TOKEN, 0))

\* AlertStreamParser.feed
feed(buffer, chunk) == extract(buffer \o decode(chunk), <<>>)

\* AlertStreamParser()
AlertStreamParser == [buffer |-> EMPTY]

\* A connection that sends the document doc: rest, the bytes not yet
\* delivered; chunks, the feed calls so far; emitted, the documents they
\* returned.
Wire(doc, rest, chunks, emitted) ==
    [doc |-> doc, rest |-> rest, chunks |-> chunks, emitted |-> emitted]

\* Documents as the extractor sees them: a start marker, anything, an end
\* marker.
SPAN_A == START_TOKEN \o <<">", "a">> \o END_TOKEN

SPAN_B == START_TOKEN \o <<" ", "v", "=", "'", "2", "'", ">", "b">> \o END_TOKEN

\* A document with a second start marker inside.
SPAN_NESTED == START_TOKEN \o <<">">> \o START_TOKEN \o <<">", "c">> \o END_TOKEN

\* What a device sends on one connection: text without markers and a lone
\* end marker, two documents with text between them, and the beginning of a
\* third; a document with a second start marker, a lone end marker and text.
ExtractStreamInputs ==
    { <<"x">> \o END_TOKEN \o SPAN_A \o <<"y">> \o SPAN_B
         \o START_TOKEN \o <<">", "w">>,
      SPAN_NESTED \o END_TOKEN \o <<"t">> }

\* The numbers of bytes of a chunk in the runs of the extractor: one byte,
\* and sizes that end chunks inside and between the markers.
ExtractChunkSizes == {1, 12, 24, 27, 30, 51, 77}

\* A chunk of noise: NoiseLength characters without a marker.
NOISE == [i \in 1..NoiseLength |-> "x"]

\* The chunks fed to an extractor in any order: noise, a start marker, an end
\* marker and one character.
BufferChunkInputs == { NOISE, START_TOKEN, END_TOKEN, <<"y">> }

\* The number of bytes iter_any() may yield at once.
ChunkSizes == 1..Greatest({ Len(doc) : doc \in DocumentInputs })

(* ------------------------------ requests ------------------------------ *)

\* What an awaited call of the client gave: nothing yet, a response with its
\* status and WWW-Authenticate header, an exception (aiohttp.ClientError,
\* TimeoutError), or its plain completion.
Awaiting == [kind |-> "pending", status |-> 0, header |-> None]

Response(status, header) ==
    [kind |-> "response", status |-> status, header |-> header]

Raised == [kind |-> "error", status |-> 0, header |-> None]

Completed == [kind |-> "done", status |-> 0, header |-> None]

\* What iter_any() gave: a chunk, or the end of the body.
Chunk == [kind |-> "chunk", status |-> 0, header |-> None]

EndOfBody == [kind |-> "eof", status |-> 0, header |-> None]

\* What one run of _request, from where it was suspended (pc) to where it
\* suspends next, returns or raises, leaves: the digest state, the
\* Authorization header of each HTTP request it issued (None: no header),
\* and the response it returns.
RequestStep(d, outcome, pc, sent, response) ==
    [digest |-> d, outcome |-> outcome, pc |-> pc, sent |-> sent,
     response |-> response]

\* _request issues an HTTP request with the header build_authorization
\* gave (built) and awaits it.
Issue(built, pc) ==
    RequestStep(built.digest, "await", pc, <<built.value>>, Awaiting)

\* _request after a 401, updated being the digest state after
\* update_from_header.
Rejected(updated, pc, fut, allow_retry_unauthorized) ==
    IF allow_retry_unauthorized
    THEN RequestStep(updated, "await", "release", <<>>, Awaiting)
    ELSE RequestStep(updated, "return", pc, <<>>, fut)

_request_again(d, pc, fut, method, path, allow_retry_unauthorized, cnonce) ==
    IF pc \in {"call", "release"}
    THEN Issue(build_authorization(d, method, path, cnonce),
               IF pc = "call" THEN "request" ELSE "retry")
    ELSE IF fut.kind = "error"
    THEN RequestStep(d, "raise", pc, <<>>, Awaiting)
    ELSE IF fut.status # 401
    THEN RequestStep(d, "return", pc, <<>>, fut)
    ELSE Rejected(update_from_header(d, fut.header), pc, fut,
                  allow_retry_unauthorized)

\* HikvisionIsapiClient._request.  pc "call": from its entry to the await of
\* the first session.request; "request": from the first response to the
\* await of response.release(), or to its return; "release": to the await of
\* the second session.request; "retry": from the second response to the
\* return.
_request(d, pc, fut, method, path, allow_retry_unauthorized, cnonce) ==
    IF pc \in {"call", "release"}
    THEN Issue(build_authorization(d, method, path, cnonce),
               IF pc = "call" THEN "request" ELSE "retry")
    ELSE IF fut.kind = "error"
    THEN RequestStep(d, "raise", pc, <<>>, Awaiting)
    ELSE IF pc = "retry" \/ fut.status # 401
    THEN RequestStep(d, "return", pc, <<>>, fut)
    ELSE Rejected(update_from_header(d, fut.header), pc, fut,
                  allow_retry_unauthorized)

\* A validate_device_info() call: where it is suspended (pc), what the call
\* it awaits gave (fut), the response _request returned to fetch_text, what
\* validate_device_info returned ("true", "false") or that it raised
\* ("raised"), and is_valid of the config flow.  History: sent, the
\* Authorization headers of the HTTP requests of the call; got, the responses
\* to them; failed, an awaited call raised.
Probe(pc, fut, response, result, is_valid, sent, got, failed) ==
    [pc |-> pc, fut |-> fut, response |-> response, result |-> result,
     is_valid |-> is_valid, sent |-> sent, got |-> got, failed |-> failed]

\* fetch_text and validate_device_info around a run r of _request: an
\* exception propagates through both to the config flow, whose except sets
\* is_valid = False; a response is entered (async with) and its text awaited.
probe_after_request(p, r) ==
    [digest |-> r.digest,
     probe |->
       IF r.outcome = "await"
       THEN [p EXCEPT !.pc = r.pc, !.fut = Awaiting, !.sent = @ \o r.sent]
       ELSE IF r.outcome = "raise"
       THEN [p EXCEPT !.pc = "ended", !.fut = Awaiting,
                      !.result = "raised", !.is_valid = FALSE]
       ELSE [p EXCEPT !.pc = "text", !.fut = Awaiting,
                      !.response = r.response]]

\* HikvisionIsapiClient.validate_device_info with fetch_text and _request,
\* and the try/except of the config flow around it: one run of the call from
\* where it was suspended.
validate_device_info(d, p, cnonce) ==
    IF p.pc \in {"call", "request", "release", "retry"}
    THEN probe_after_request(
             p, _request(d, p.pc, p.fut, GET, DEVICE_INFO_PATH, TRUE, cnonce))
    ELSE [digest |-> d,
          probe |->
            IF p.fut.kind = "error"
            THEN [p EXCEPT !.pc = "ended", !.fut = Awaiting,
                           !.result = "raised", !.is_valid = FALSE]
            ELSE [p EXCEPT !.pc = "ended", !.fut = Awaiting,
                           !.result = IF p.response.status = 200
                                      THEN "true" ELSE "false",
                           !.is_valid = (p.response.status = 200)]]

(* ----------------------------- the decoder ---------------------------- *)

EVENT_NOTIFICATION_ALERT == <<"E", "v", "e", "n", "t", "N", "o", "t", "i", "f", "i", "c", "a",
      "t", "i", "o", "n", "A", "l", "e", "r", "t">>

EVENT_TYPE == <<"e", "v", "e", "n", "t", "T", "y", "p", "e">>

EVENT_STATE == <<"e", "v", "e", "n", "t", "S", "t", "a", "t", "e">>

CHANNEL_ID == <<"c", "h", "a", "n", "n", "e", "l", "I", "D">>

TARGET_TYPE == <<"t", "a", "r", "g", "e", "t", "T", "y", "p", "e">>

DATE_TIME == <<"d", "a", "t", "e", "T", "i", "m", "e">>

\* <tag> and </tag>
OpenTag(tag_name) == <<"<">> \o tag_name \o <<">">>

CloseTag(tag_name) == <<"<", "/">> \o tag_name \o <<">">>

\* The text of the element whose open tag, width characters long, is at
\* open: what stands before the next tag, stripped; None when that is empty
\* and when there is no such element.
first_text_at(doc, open, width) ==
    IF open < 0 THEN None
    ELSE OrNone(Strip(SubSeq(doc, open + width + 1,
                             Find(doc, <<"<">>, open + width))))

\* first_text, for documents whose elements below the root have neither
\* attributes nor prefixes.
first_text(doc, tag_name) ==
    first_text_at(doc, Find(doc, OpenTag(tag_name), 0), Len(tag_name) + 2)

DigitValue(char) == (CHOOSE i \in DOMAIN Digits : Digits[i] = char) - 1

RECURSIVE DecimalValue(_)
DecimalValue(text) ==
    IF text = <<>> THEN 0
    ELSE 10 * DecimalValue(SubSeq(text, 1, Len(text) - 1))
         + DigitValue(text[Len(text)])

IsDigits(text) ==
    /\ text # <<>>
    /\ \A i \in DOMAIN text : \E j \in DOMAIN Digits : Digits[j] = text[i]

\* int(channel_text) inside its try, and the None of a missing text.
channel_id_of(channel_text) ==
    IF channel_text = None THEN NoChannel
    ELSE IF IsDigits(channel_text)
    THEN IntChannel(DecimalValue(channel_text))
    ELSE IF Head(channel_text) = "+" /\ IsDigits(Tail(channel_text))
    THEN IntChannel(DecimalValue(Tail(channel_text)))
    ELSE IF Head(channel_text) = "-" /\ IsDigits(Tail(channel_text))
    THEN IntChannel(0 - DecimalValue(Tail(channel_text)))
    ELSE NoChannel

\* The name of the element a tag opens: what stands before its attributes
\* and the slash of an empty element.
TagName(tag) ==
    SubSeq(tag, 1, Least({i \in DOMAIN tag : tag[i] \in WhiteSpace \cup {"/"}}
                         \cup {Len(tag) + 1}) - 1)

\* The parser of ET.fromstring on documents of elements, attributes and text
\* (no comments, processing instructions, entities or CDATA): whether what
\* follows offset pos is well formed, stack being the elements open there and
\* rooted whether the root element was opened.
RECURSIVE expat(_, _, _, _)

\* After the tag that ends before offset next.
expat_tag(doc, stack, rooted, tag, next) ==
    IF tag = <<>> \/ \E i \in DOMAIN tag : tag[i] = "<"
    THEN FALSE
    ELSE IF Head(tag) = "/"
    THEN /\ stack # <<>>
         /\ Strip(Tail(tag)) = stack[Len(stack)]
         /\ expat(doc, next, SubSeq(stack, 1, Len(stack) - 1), rooted)
    ELSE IF stack = <<>> /\ rooted
    THEN FALSE
    ELSE IF tag[Len(tag)] = "/"
    THEN expat(doc, next, stack, TRUE)
    ELSE expat(doc, next, Append(stack, TagName(tag)), TRUE)

\* At the tag that opens at offset open and closes at offset close.
expat_close(doc, stack, rooted, open, close) ==
    IF close < 0 THEN FALSE
    ELSE expat_tag(doc, stack, rooted, SubSeq(doc, open + 2, close), close + 1)

\* At the text from offset pos to the next tag, which opens at offset open.
expat_text(doc, pos, stack, rooted, open) ==
    IF open < 0
    THEN stack = <<>> /\ rooted /\ Strip(From(doc, pos)) = EMPTY
    ELSE IF stack = <<>> /\ Strip(SubSeq(doc, pos + 1, open)) # EMPTY
    THEN FALSE
    ELSE expat_close(doc, stack, rooted, open, Find(doc, <<">">>, open))

expat(doc, pos, stack, rooted) ==
    expat_text(doc, pos, stack, rooted, Find(doc, <<"<">>, pos))

\* ET.fromstring(xml_payload) does not raise ParseError.
\* Mutant: every document parses.
fromstring_unchecked(doc) == TRUE

fromstring(doc) == expat(doc, 0, <<>>, FALSE)

\* local_name(root.tag) of a document that parses.
root_tag(doc) ==
    TagName(SubSeq(doc, Find(doc, <<"<">>, 0) + 2, Find(doc, <<">">>, 0)))

\* Lines 27-33: the document parses and its root is an
\* EventNotificationAlert.
IsNotification(doc) ==
    fromstring(doc) /\ root_tag(doc) = EVENT_NOTIFICATION_ALERT

\* parse_event_notification: the event dict, or that it returned None.
parse_event_notification(doc) ==
    IF ~IsNotification(doc)
    THEN [parsed |-> FALSE, event |-> Event(None, None, NoChannel, None, None)]
    ELSE [parsed |-> TRUE,
          event |-> Event(first_text(doc, EVENT_TYPE),
                          first_text(doc, EVENT_STATE),
                          channel_id_of(first_text(doc, CHANNEL_ID)),
                          first_text(doc, TARGET_TYPE),
                          first_text(doc, DATE_TIME))]

IsParsed(parse) == parse.parsed

\* The events stream_alerts passes to its callback for the documents a feed
\* call returned, in order.
decoded_events(docs) ==
    [i \in DOMAIN SelectSeq([j \in DOMAIN docs |->
                                parse_event_notification(docs[j])], IsParsed)
       |-> SelectSeq([j \in DOMAIN docs |->
                         parse_event_notification(docs[j])], IsParsed)[i].event]

\* _on_event for each of the events, in order.
RECURSIVE on_events(_, _)
\* Mutant: the events of a chunk are applied last to first.
on_events_last_first(m, events) ==
    IF events = <<>> THEN m
    ELSE process_event(on_events(m, Tail(events)), Head(events))

on_events(m, events) ==
    IF events = <<>> THEN m
    ELSE on_events(process_event(m, Head(events)), Tail(events))

(* --------------------------- the supervisor --------------------------- *)

\* The task of _run_stream.  pc is where it is: "none", no task yet;
\* "created", scheduled and not yet run; "request", "release", "retry",
\* suspended in _request; "text", awaiting the body of a response that is
\* not a 200; "read", awaiting the next chunk; "sleep", awaiting
\* asyncio.sleep(backoff); "done", returned; "cancelled", ended by the
\* CancelledError it raised.  fut is what the awaited call gave and chunk
\* the bytes of a chunk; must_cancel, that Task.cancel() was called; data,
\* entry.data.  History: sent, the Authorization headers of the HTTP
\* requests of the current stream_alerts call, got, their responses, and
\* response, what _request returned, all three until the call fails, returns
\* or has fed a chunk; delivered, that call passed an event to the callback; fails, the stream_alerts calls that raised since the task
\* started or one returned, and tainted, one of them had delivered an
\* event; wait, the seconds of the last sleep; was and had, the pc and fut
\* of the task when it ended; fed, the chunk the call fed last.
NoTask ==
    [pc |-> "none", fut |-> Awaiting, chunk |-> <<>>, must_cancel |-> FALSE,
     data |-> [k \in {} |-> 0], reconnect_delay |-> 0, backoff |-> 0,
     response |-> Awaiting, sent |-> <<>>, got |-> <<>>, delivered |-> FALSE,
     fails |-> 0, tainted |-> FALSE, wait |-> 0, was |-> "none",
     had |-> Awaiting, fed |-> <<>>]

\* hass.async_create_task(_run_stream(runtime))
async_create_task(data) == [NoTask EXCEPT !.pc = "created", !.data = data]

\* What one run of the task, until it suspends or ends, leaves: the task,
\* the digest state, the parser, and the events it passed to _on_event.
Ran(t, d, p, events) ==
    [task |-> t, digest |-> d, parser |-> p, events |-> events]

\* Lines 234-238: the delays.
configured_delay(data) ==
    IF CONF_RECONNECT_DELAY_SECONDS \in DOMAIN data
    THEN data[CONF_RECONNECT_DELAY_SECONDS]
    ELSE DEFAULT_RECONNECT_DELAY_SECONDS

started(t) ==
    [t EXCEPT !.reconnect_delay = Max(1, configured_delay(t.data)),
              !.backoff = Max(1, configured_delay(t.data))]

\* Line 247: stream_alerts returned.
on_return(t) ==
    [t EXCEPT !.backoff = t.reconnect_delay, !.fails = 0, !.tainted = FALSE,
              !.response = Awaiting, !.sent = <<>>, !.got = <<>>]

\* Lines 250-252: stream_alerts raised an Exception; the task sleeps.
on_exception(t) ==
    [t EXCEPT !.pc = "sleep", !.fut = Awaiting, !.chunk = <<>>,
              !.wait = t.backoff, !.fails = @ + 1,
              !.tainted = @ \/ t.delivered,
              !.response = Awaiting, !.sent = <<>>, !.got = <<>>]

next_backoff_uncapped(backoff) == backoff * 2

\* Line 253 (right-hand side)
next_backoff(backoff) == Min(backoff * 2, MAX_BACKOFF_SECONDS)

\* Line 253: the sleep is over.
after_sleep(t) == [t EXCEPT !.backoff = next_backoff(t.backoff)]

on_cancelled_as_failure(t) == [on_exception(t) EXCEPT !.must_cancel = FALSE]

\* Lines 248-249: the awaited call raises CancelledError, which is no
\* Exception; it leaves stream_alerts and is raised again.
on_cancelled(t) ==
    [t EXCEPT !.pc = "cancelled", !.fut = Awaiting, !.chunk = <<>>,
              !.must_cancel = FALSE, !.was = t.pc, !.had = t.fut]

\* stream_alerts around a run r of _request: an exception leaves it; a
\* response that is no 200 has its body read before RuntimeError is raised;
\* a 200 gets a parser and the first chunk is awaited.
stream_after_request(t, p, r) ==
    IF r.outcome = "await"
    THEN Ran([t EXCEPT !.pc = r.pc, !.fut = Awaiting, !.sent = @ \o r.sent],
             r.digest, p, <<>>)
    ELSE IF r.outcome = "raise"
    THEN Ran(on_exception(t), r.digest, p, <<>>)
    ELSE IF r.response.status # 200
    THEN Ran([t EXCEPT !.pc = "text", !.fut = Awaiting,
                       !.response = r.response], r.digest, p, <<>>)
    ELSE Ran([t EXCEPT !.pc = "read", !.fut = Awaiting,
                       !.response = r.response],
             r.digest, AlertStreamParser, <<>>)

\* Line 244 and what follows it: the loop ends when the stop event is set,
\* and else stream_alerts is called and runs to its first await.
loop_head(t, d, p, stop, cnonce) ==
    IF stop
    THEN Ran([t EXCEPT !.pc = "done", !.fut = Awaiting, !.chunk = <<>>,
                       !.was = t.pc, !.had = t.fut],
             d, p, <<>>)
    ELSE stream_after_request(
             [t EXCEPT !.chunk = <<>>, !.fed = <<>>, !.response = Awaiting,
                       !.sent = <<>>,
                       !.got = <<>>, !.delivered = FALSE],
             p, _request(d, "call", Awaiting, GET, ALERT_STREAM_PATH, TRUE,
                         cnonce))

\* Lines 188-193 of the client: the events of the documents fed went to the
\* callback, and the next chunk is awaited.
stream_after_events(t, d, buffer, events) ==
    Ran([t EXCEPT !.fut = Awaiting, !.chunk = <<>>, !.fed = t.chunk,
                  !.delivered = @ \/ events # <<>>,
                  !.response = Awaiting, !.sent = <<>>, !.got = <<>>],
        d, [buffer |-> buffer], events)

stream_after_feed(t, d, fed) ==
    stream_after_events(t, d, fed.buffer, decoded_events(fed.docs))

\* The loop of stream_alerts resumed with what iter_any() gave.
stream_after_read(t, d, p, stop, cnonce) ==
    IF t.fut.kind = "error"
    THEN Ran(on_exception(t), d, p, <<>>)
    ELSE IF t.fut.kind = "eof" \/ stop
    THEN loop_head(on_return(t), d, p, stop, cnonce)
    ELSE IF t.chunk = <<>>
    THEN Ran([t EXCEPT !.fut = Awaiting], d, p, <<>>)
    ELSE stream_after_feed(t, d, feed(p.buffer, t.chunk))

\* _run_stream with stream_alerts and _request: one run of the task from
\* where it was suspended, with what it awaited.
_run_stream(t, d, p, stop, cnonce) ==
    IF t.pc = "created"
    THEN loop_head(started(t), d, p, stop, cnonce)
    ELSE IF t.pc \in {"request", "release", "retry"}
    THEN stream_after_request(
             t, p, _request(d, t.pc, t.fut, GET, ALERT_STREAM_PATH, TRUE,
                            cnonce))
    ELSE IF t.pc = "text"
    THEN Ran(on_exception(t), d, p, <<>>)
    ELSE IF t.pc = "read"
    THEN stream_after_read(t, d, p, stop, cnonce)
    ELSE loop_head(after_sleep(t), d, p, stop, cnonce)

IsOver(t) == t.pc \in {"none", "done", "cancelled"}

cancel_lost_when_ready(t) ==
    IF IsOver(t) \/ (t.pc # "created" /\ t.fut # Awaiting) THEN t
    ELSE [t EXCEPT !.must_cancel = TRUE]

\* Task.cancel(): the task, unless it is over, gets CancelledError at its
\* next run, also when what it awaits has completed by then.
cancel(t) ==
    IF IsOver(t) THEN t ELSE [t EXCEPT !.must_cancel = TRUE]

async_unload_entry_without_cancel(t) == [stop_event |-> TRUE, task |-> t]

\* Lines 330-333 of async_unload_entry, as far as the supervisor goes.
async_unload_entry(t) == [stop_event |-> TRUE, task |-> cancel(t)]

(* ------------------------------ actions ------------------------------- *)

\* The program's state after an operation that ended in manager state m.
Commit(m) ==
    /\ states' = m.states
    /\ loop_timers' = m.loop_timers
    /\ calls' = m.calls

\* The headers of HeaderInputs that are digest challenges with a realm and a
\* nonce field, and those of them whose realm and nonce are not empty.
HasRealmAndNonce ==
    { HEADER_DIGEST_1, HEADER_DIGEST_2, HEADER_DIGEST_BARE,
      HEADER_DIGEST_EMPTY_REALM }

HasCredentials == { HEADER_DIGEST_1, HEADER_DIGEST_2, HEADER_DIGEST_BARE }

\* The last call of a DigestAuthState method: op is "update" or "build",
\* header the argument of update_from_header, value what build_authorization
\* returned.  History: challenged, update_from_header was once given a
\* challenge with a realm and a nonce that are not empty; builds, the
\* build_authorization calls that returned a value since update_from_header
\* was last given a challenge with realm and nonce.
AuthLog(op, header, value, challenged, builds) ==
    [op |-> op, header |-> header, value |-> value,
     challenged |-> challenged, builds |-> builds]

\* The timers of the loop that will call _timer_expire(channel_id).
Pending(channel_id) == {h \in loop_timers : h.ch = channel_id}

\* History of a channel.  phase is "armed" after an active event that
\* scheduled a timer (due at deadline, delay seconds after the event), "held"
\* after an active event processed with a timeout <= 0, "cleared" after an
\* inactive event, "expired" after a timer expiry.  cancelled: that event
\* cancelled a pending timer; for "held" and "cleared", deadline is when the
\* cancelled timer was due.
Hist(phase, deadline, delay, cancelled) ==
    [phase |-> phase, deadline |-> deadline, delay |-> delay,
     cancelled |-> cancelled]

IsProcessed(event) ==
    event.event_type = EVENT_TYPE_VMD /\ event.channel_id.is_int

EventState(event) == Lower(OrEmpty(event.event_state))

CancelledDeadline(c) ==
    IF Pending(c) # {} THEN (CHOOSE h \in Pending(c) : TRUE).when ELSE 0

HistAfterEvent(event) ==
    LET c == event.channel_id.value
        delay == get_channel_timeout(c)
    IN  IF ~IsProcessed(event) THEN hist
        ELSE IF EventState(event) = ACTIVE
        THEN [hist EXCEPT ![c] =
                IF delay > 0
                THEN Hist("armed", now + delay, delay, Pending(c) # {})
                ELSE Hist("held", CancelledDeadline(c), 0, Pending(c) # {})]
        ELSE IF EventState(event) = INACTIVE
        THEN [hist EXCEPT ![c] =
                Hist("cleared", CancelledDeadline(c), 0, Pending(c) # {})]
        ELSE hist

Init ==
    /\ states = <<>>
    /\ \E initial_timeouts \in InitialTimeoutInputs :
         timeouts = [c \in DOMAIN initial_timeouts |->
                       _clamp_timeout(initial_timeouts[c])]
    /\ entry_data \in EntryDataInputs
    /\ entity_listeners = <<>>
    /\ channel_listeners = <<>>
    /\ loop_timers = {}
    /\ now = 0
    /\ calls = <<>>
    /\ requested = <<>>
    /\ hist = [c \in Channels |-> Hist("none", 0, 0, FALSE)]
    /\ digest = DigestAuthState(Username, Password)
    /\ auth = AuthLog("none", None, None, FALSE, 0)
    /\ probe = Probe("ended", Awaiting, Awaiting, "none", FALSE,
                     <<>>, <<>>, FALSE)
    /\ parser = AlertStreamParser
    /\ wire = Wire(<<>>, <<>>, 0, <<>>)
    /\ stop_event = FALSE
    /\ task = NoTask

\* _on_event: one decoded event reaches the manager.
ProcessEvent(event) ==
    /\ FreeHandles(Mgr) # {}
    /\ UNCHANGED <<timeouts, entry_data, entity_listeners,
                   channel_listeners, now, requested>>
    /\ hist' = HistAfterEvent(event)
    /\ Commit(process_event(Mgr, event))
    /\ UNCHANGED client_vars

\* The loop runs a due TimerHandle: _timer_expire(channel_id).
TimerExpire(h) ==
    /\ h \in loop_timers
    /\ now >= h.when
    /\ UNCHANGED <<timeouts, entry_data, entity_listeners,
                   channel_listeners, now, requested>>
    /\ hist' = [hist EXCEPT ![h.ch].phase = "expired"]
    /\ Commit(_timer_expire([Mgr EXCEPT !.loop_timers = @ \ {h}], h.ch))
    /\ UNCHANGED client_vars

\* Time passes on the loop's clock.
Tick ==
    /\ now < MaxTime
    /\ now' = now + 1
    /\ calls' = <<>>
    /\ UNCHANGED <<states, timeouts, entry_data, entity_listeners,
                   channel_listeners, loop_timers, requested, hist>>
    /\ UNCHANGED client_vars

\* Mutant: the value is stored as given.
async_set_channel_timeout_unclamped(channel_id, seconds) ==
    [c \in DOMAIN timeouts \cup {channel_id} |->
        IF c = channel_id THEN seconds ELSE timeouts[c]]

\* self._timeouts[channel_id] = self._clamp_timeout(seconds)
async_set_channel_timeout(channel_id, seconds) ==
    [c \in DOMAIN timeouts \cup {channel_id} |->
        IF c = channel_id THEN _clamp_timeout(seconds) ELSE timeouts[c]]

SetTimeout(channel_id, seconds) ==
    /\ timeouts' = async_set_channel_timeout(channel_id, seconds)
    /\ requested' = [c \in DOMAIN requested \cup {channel_id} |->
                       IF c = channel_id THEN seconds ELSE requested[c]]
    /\ calls' = <<>>
    /\ UNCHANGED <<states, entry_data, entity_listeners, channel_listeners,
                   loop_timers, now, hist>>
    /\ UNCHANGED client_vars

Discover(channels) ==
    /\ Commit(add_discovered_channels(Mgr, channels))
    /\ UNCHANGED <<timeouts, entry_data, entity_listeners, channel_listeners,
                   now, requested, hist>>
    /\ UNCHANGED client_vars

Shutdown ==
    /\ Commit(shutdown(Mgr))
    /\ UNCHANGED <<timeouts, entry_data, entity_listeners, channel_listeners,
                   now, requested, hist>>
    /\ UNCHANGED client_vars

InList(list, x) == \E i \in DOMAIN list : list[i] = x

\* list.remove(x): the first occurrence goes.
ListRemove(list, x) ==
    LET i == CHOOSE k \in DOMAIN list :
                 list[k] = x /\ \A j \in 1..(k - 1) : list[j] # x
    IN  SubSeq(list, 1, i - 1) \o SubSeq(list, i + 1, Len(list))

add_state_listener(callback) == Append(entity_listeners, callback)

add_channel_listener(callback) == Append(channel_listeners, callback)

\* Each callback object is registered once.
AddStateListener(callback) ==
    /\ ~InList(entity_listeners, callback)
    /\ entity_listeners' = add_state_listener(callback)
    /\ calls' = <<>>
    /\ UNCHANGED <<states, timeouts, entry_data, channel_listeners,
                   loop_timers, now, requested, hist>>
    /\ UNCHANGED client_vars

\* The _remove closure add_state_listener returned.
RemoveStateListener(callback) ==
    /\ InList(entity_listeners, callback)
    /\ entity_listeners' = ListRemove(entity_listeners, callback)
    /\ calls' = <<>>
    /\ UNCHANGED <<states, timeouts, entry_data, channel_listeners,
                   loop_timers, now, requested, hist>>
    /\ UNCHANGED client_vars

AddChannelListener(callback) ==
    /\ ~InList(channel_listeners, callback)
    /\ channel_listeners' = add_channel_listener(callback)
    /\ calls' = <<>>
    /\ UNCHANGED <<states, timeouts, entry_data, entity_listeners,
                   loop_timers, now, requested, hist>>
    /\ UNCHANGED client_vars

\* The _remove closure add_channel_listener returned.
RemoveChannelListener(callback) ==
    /\ InList(channel_listeners, callback)
    /\ channel_listeners' = ListRemove(channel_listeners, callback)
    /\ calls' = <<>>
    /\ UNCHANGED <<states, timeouts, entry_data, entity_listeners,
                   loop_timers, now, requested, hist>>
    /\ UNCHANGED client_vars

\* A caller of DigestAuthState.update_from_header.
UpdateFromHeader(header) ==
    /\ digest' = update_from_header(digest, header)
    /\ auth' = AuthLog("update", header, None,
                       auth.challenged \/ header \in HasCredentials,
                       IF header \in HasRealmAndNonce THEN 0 ELSE auth.builds)
    /\ UNCHANGED <<manager_vars, stream_vars, probe, parser, wire>>

\* What a build_authorization call leaves.
CommitBuild(r) ==
    /\ digest' = r.digest
    /\ auth' = AuthLog("build", None, r.value, auth.challenged,
                       IF r.value # None THEN auth.builds + 1
                       ELSE auth.builds)

\* A caller of DigestAuthState.build_authorization.
BuildAuthorization(method, uri, cnonce) ==
    /\ digest.nc < MaxNc
    /\ CommitBuild(build_authorization(digest, method, uri, cnonce))
    /\ UNCHANGED <<manager_vars, stream_vars, probe, parser, wire>>

\* What a run of the call leaves.
CommitProbe(r) == digest' = r.digest /\ probe' = r.probe

\* The config flow makes a client (a new DigestAuthState) and calls its
\* validate_device_info(): the call runs to its first await.
ValidateDeviceInfo(cnonce) ==
    /\ probe.pc = "ended"
    /\ CommitProbe(validate_device_info(
                       DigestAuthState(Username, Password),
                       Probe("call", Awaiting, Awaiting, "none", FALSE,
                             <<>>, <<>>, FALSE),
                       cnonce))
    /\ UNCHANGED <<manager_vars, stream_vars, auth, parser, wire>>

\* The device answers the HTTP request the call awaits.
ProbeRespond(status, header) ==
    /\ probe.pc \in {"request", "retry"}
    /\ probe.fut = Awaiting
    /\ probe' = [probe EXCEPT !.fut = Response(status, header),
                              !.got = Append(@, Response(status, header))]
    /\ UNCHANGED <<manager_vars, stream_vars, digest, auth, parser, wire>>

\* The HTTP request or the read of the body fails: connection refused or
\* reset, or the 15 seconds of the total timeout are over.
ProbeFail ==
    /\ probe.pc \in {"request", "retry", "text"}
    /\ probe.fut = Awaiting
    /\ probe' = [probe EXCEPT !.fut = Raised, !.failed = TRUE]
    /\ UNCHANGED <<manager_vars, stream_vars, digest, auth, parser, wire>>

\* response.release() or response.text() completes.
ProbeComplete ==
    /\ probe.pc \in {"release", "text"}
    /\ probe.fut = Awaiting
    /\ probe' = [probe EXCEPT !.fut = Completed]
    /\ UNCHANGED <<manager_vars, stream_vars, digest, auth, parser, wire>>

\* The loop resumes the call with what it awaited.
ProbeResume(cnonce) ==
    /\ probe.pc # "ended"
    /\ probe.fut # Awaiting
    /\ CommitProbe(validate_device_info(digest, probe, cnonce))
    /\ UNCHANGED <<manager_vars, stream_vars, auth, parser, wire>>

\* A connection opens: stream_alerts makes its AlertStreamParser, and the
\* device is about to send doc.
OpenWire(doc) ==
    /\ wire.rest = <<>>
    /\ parser' = AlertStreamParser
    /\ wire' = Wire(doc, doc, 0, <<>>)
    /\ UNCHANGED <<manager_vars, stream_vars, digest, auth, probe>>

\* What a feed call leaves, n being the bytes of the chunk.
CommitFeed(n, fed) ==
    /\ parser' = [buffer |-> fed.buffer]
    /\ wire' = [wire EXCEPT !.rest = From(@, n), !.chunks = @ + 1,
                            !.emitted = @ \o fed.docs]

\* response.content.iter_any() yields the next n bytes, and stream_alerts
\* feeds them to the parser.
Feed(n) ==
    /\ n \in 1..Len(wire.rest)
    /\ wire.chunks < MaxChunks
    /\ CommitFeed(n, feed(parser.buffer, SubSeq(wire.rest, 1, n)))
    /\ UNCHANGED <<manager_vars, stream_vars, digest, auth, probe>>

\* response.content.iter_any() yields the next n bytes of a connection's
\* text, and stream_alerts feeds them to the parser.
FeedPiece(n) ==
    /\ n \in 1..Len(wire.rest)
    /\ wire.chunks < MaxFeeds
    /\ CommitFeed(n, feed(parser.buffer, SubSeq(wire.rest, 1, n)))
    /\ UNCHANGED <<manager_vars, stream_vars, digest, auth, probe>>

\* feed(chunk) on an AlertStreamParser, whatever the bytes of the chunk.
FeedChunk(chunk) ==
    /\ wire.doc = <<>>
    /\ wire.chunks < MaxFeeds
    /\ CommitFeed(0, feed(parser.buffer, chunk))
    /\ UNCHANGED <<manager_vars, stream_vars, digest, auth, probe>>

\* async_setup_entry, lines 312-315: the channels discover_channels found
\* (its requests met no challenge) are added and the task is created.
AsyncSetupEntry(data, channels) ==
    /\ task.pc = "none"
    /\ task' = async_create_task(data)
    /\ Commit(add_discovered_channels(Mgr, channels))
    /\ UNCHANGED <<timeouts, entry_data, entity_listeners, channel_listeners,
                   now, requested, hist>>
    /\ UNCHANGED <<digest, auth, probe, parser, wire, stop_event>>

\* What the task awaits is still to come.
Suspended(pcs) ==
    task.pc \in pcs /\ task.fut = Awaiting /\ ~task.must_cancel

\* The device answers the HTTP request the task awaits.
StreamRespond(status, header) ==
    /\ Suspended({"request", "retry"})
    /\ task' = [task EXCEPT !.fut = Response(status, header),
                            !.got = Append(@, Response(status, header))]
    /\ UNCHANGED <<manager_vars, digest, auth, probe, parser, wire,
                   stop_event>>

\* The HTTP request, the read of a body or the read of the next chunk
\* fails: a transport error, or the 90 seconds of the read timeout are over.
StreamFail ==
    /\ Suspended({"request", "retry", "text", "read"})
    /\ task' = [task EXCEPT !.fut = Raised]
    /\ UNCHANGED <<manager_vars, digest, auth, probe, parser, wire,
                   stop_event>>

\* response.release() or response.text() completes.
StreamComplete ==
    /\ Suspended({"release", "text"})
    /\ task' = [task EXCEPT !.fut = Completed]
    /\ UNCHANGED <<manager_vars, digest, auth, probe, parser, wire,
                   stop_event>>

\* The seconds of asyncio.sleep(backoff) are over.
SleepElapsed ==
    /\ Suspended({"sleep"})
    /\ task' = [task EXCEPT !.fut = Completed]
    /\ UNCHANGED <<manager_vars, digest, auth, probe, parser, wire,
                   stop_event>>

\* The device sends bytes, which iter_any() yields.
StreamChunk(chunk) ==
    /\ Suspended({"read"})
    /\ task' = [task EXCEPT !.fut = Chunk, !.chunk = chunk]
    /\ UNCHANGED <<manager_vars, digest, auth, probe, parser, wire,
                   stop_event>>

\* The device ends the body.
StreamEnd ==
    /\ Suspended({"read"})
    /\ task' = [task EXCEPT !.fut = EndOfBody]
    /\ UNCHANGED <<manager_vars, digest, auth, probe, parser, wire,
                   stop_event>>

\* The history after an event processed in manager state m with history h.
hist_after(m, h, event) ==
    IF ~IsProcessed(event) \/ EventState(event) \notin {ACTIVE, INACTIVE}
    THEN h
    ELSE [h EXCEPT ![event.channel_id.value] =
            IF EventState(event) = INACTIVE
            THEN Hist("cleared",
                      Greatest({0} \cup {t.when : t \in {u \in m.loop_timers :
                                   u.ch = event.channel_id.value}}),
                      0, \E t \in m.loop_timers : t.ch = event.channel_id.value)
            ELSE IF get_channel_timeout(event.channel_id.value) > 0
            THEN Hist("armed",
                      now + get_channel_timeout(event.channel_id.value),
                      get_channel_timeout(event.channel_id.value),
                      \E t \in m.loop_timers : t.ch = event.channel_id.value)
            ELSE Hist("held",
                      Greatest({0} \cup {t.when : t \in {u \in m.loop_timers :
                                   u.ch = event.channel_id.value}}),
                      0, \E t \in m.loop_timers : t.ch = event.channel_id.value)]

\* The history after the events of a chunk, processed in order.
RECURSIVE hist_after_events(_, _, _)
hist_after_events(m, h, events) ==
    IF events = <<>> THEN h
    ELSE hist_after_events(process_event(m, Head(events)),
                           hist_after(m, h, Head(events)), Tail(events))

\* What a run of the task leaves.
CommitRun(r) ==
    /\ task' = r.task
    /\ digest' = r.digest
    /\ parser' = r.parser
    /\ hist' = hist_after_events(Mgr, hist, r.events)
    /\ Commit(on_events(Mgr, r.events))

\* The loop runs the task, for the first time or with what it awaited.
StreamResume(cnonce) ==
    /\ ~IsOver(task)
    /\ ~task.must_cancel
    /\ task.pc = "created" \/ task.fut # Awaiting
    /\ task.fails < MaxStreak
    /\ digest.nc < MaxNc
    /\ FreeHandles(Mgr) # {}
    /\ UNCHANGED <<timeouts, entry_data, entity_listeners, channel_listeners,
                   now, requested>>
    /\ UNCHANGED <<auth, probe, wire, stop_event>>
    /\ CommitRun(_run_stream(task, digest, parser, stop_event, cnonce))

\* The loop runs the task whose cancel() was called: what the task awaits,
\* or the coroutine that has not started, raises CancelledError.
StreamThrow ==
    /\ ~IsOver(task)
    /\ task.must_cancel
    /\ task' = on_cancelled(task)
    /\ UNCHANGED <<manager_vars, digest, auth, probe, parser, wire,
                   stop_event>>

\* What async_unload_entry leaves.
CommitUnload(r) == stop_event' = r.stop_event /\ task' = r.task

\* async_unload_entry once the platforms are unloaded, lines 329-333: the
\* stop event is set, the manager shut down and the task cancelled, with no
\* await between them.
AsyncUnloadEntry ==
    /\ task.pc # "none"
    /\ ~stop_event
    /\ CommitUnload(async_unload_entry(task))
    /\ Commit(shutdown(Mgr))
    /\ UNCHANGED <<timeouts, entry_data, entity_listeners, channel_listeners,
                   now, requested, hist>>
    /\ UNCHANGED <<digest, auth, probe, parser, wire>>

(* --------------------------- specifications --------------------------- *)

\* The channel state machine with its timers and timeout configuration; no
\* listener is registered.
Next ==
    \/ \E event \in EventInputs : ProcessEvent(event)
    \/ \E h \in loop_timers : TimerExpire(h)
    \/ Tick
    \/ \E p \in SetTimeoutInputs : SetTimeout(p[1], p[2])
    \/ \E channels \in DiscoveryInputs : Discover(channels)
    \/ Shutdown

Spec == Init /\ [][Next]_vars

\* The channel state machine under events of every spelling.
NextFields ==
    \/ \E event \in FieldEventInputs : ProcessEvent(event)
    \/ \E h \in loop_timers : TimerExpire(h)
    \/ Tick

SpecFields == Init /\ [][NextFields]_vars

\* The manager with listeners coming and going.
NextNotify ==
    \/ \E event \in NotifyEventInputs : ProcessEvent(event)
    \/ \E h \in loop_timers : TimerExpire(h)
    \/ Tick
    \/ \E channels \in DiscoveryInputs : Discover(channels)
    \/ \E l \in StateListeners : AddStateListener(l)
    \/ \E l \in StateListeners : RemoveStateListener(l)
    \/ \E l \in ChannelListeners : AddChannelListener(l)
    \/ \E l \in ChannelListeners : RemoveChannelListener(l)

SpecNotify == Init /\ [][NextNotify]_vars

\* The manager on a running loop, state listeners registering.  The loop runs
\* a due timer callback and its clock advances: weak fairness of TimerExpire
\* and Tick.
NextExpiry ==
    \/ \E event \in ExpiryEventInputs : ProcessEvent(event)
    \/ \E h \in loop_timers : TimerExpire(h)
    \/ Tick
    \/ \E l \in StateListeners : AddStateListener(l)

SpecExpiry ==
    /\ Init
    /\ [][NextExpiry]_vars
    /\ WF_vars(Tick)
    /\ \A c \in Channels : WF_vars(\E h \in Pending(c) : TimerExpire(h))

\* A DigestAuthState under any sequence of calls.
NextDigest ==
    \/ \E header \in HeaderInputs : UpdateFromHeader(header)
    \/ \E uri \in {DEVICE_INFO_PATH, ALERT_STREAM_PATH} :
         \E cnonce \in CnonceInputs : BuildAuthorization(GET, uri, cnonce)

SpecDigest == Init /\ [][NextDigest]_vars

\* The config flow validating a device, again and again, with one client.
NextProbe ==
    \/ \E cnonce \in CnonceInputs : ValidateDeviceInfo(cnonce)
    \/ \E status \in StatusInputs :
         \E header \in (IF status = 401 THEN RejectionHeaderInputs ELSE {None}) :
            ProbeRespond(status, header)
    \/ ProbeFail
    \/ ProbeComplete
    \/ \E cnonce \in CnonceInputs : ProbeResume(cnonce)

SpecProbe == Init /\ [][NextProbe]_vars

\* An AlertStreamParser fed a document in chunks of any sizes.
NextParser ==
    \/ \E doc \in DocumentInputs : OpenWire(doc)
    \/ \E n \in ChunkSizes : Feed(n)

SpecParser == Init /\ [][NextParser]_vars

\* An AlertStreamParser fed the text of a connection, documents and other
\* text, in chunks of several sizes.
NextExtract ==
    \/ \E text \in ExtractStreamInputs : OpenWire(text)
    \/ \E n \in ExtractChunkSizes \cup {Len(wire.rest)} : FeedPiece(n)

SpecExtract == Init /\ [][NextExtract]_vars

\* An AlertStreamParser fed chunks of any content.
NextBuffer ==
    \E chunk \in BufferChunkInputs : FeedChunk(chunk)

SpecBuffer == Init /\ [][NextBuffer]_vars

\* The supervisor of the alert stream from setup to unload, the device
\* answering, sending and failing in any way.
NextStream ==
    \/ \E data \in StreamEntryDataInputs :
         \E channels \in StreamDiscoveryInputs :
            AsyncSetupEntry(data, channels)
    \/ \E status \in StatusInputs :
         \E header \in (IF status = 401 THEN StreamRejectionHeaderInputs
                        ELSE {None}) :
            StreamRespond(status, header)
    \/ StreamFail
    \/ StreamComplete
    \/ SleepElapsed
    \/ \E chunk \in StreamChunkInputs : StreamChunk(chunk)
    \/ StreamEnd
    \/ \E cnonce \in StreamCnonceInputs : StreamResume(cnonce)
    \/ StreamThrow
    \/ AsyncUnloadEntry

SpecStream == Init /\ [][NextStream]_vars

\* The stream and the manager together: the device answers 200 and sends
\* chunks of documents, the events are processed, timers expire, listeners
\* register and the entry is unloaded.
NextDeliver ==
    \/ \E channels \in StreamDiscoveryInputs :
         AsyncSetupEntry(DeliverEntryData, channels)
    \/ StreamRespond(200, None)
    \/ \E chunk \in DeliverChunkInputs : StreamChunk(chunk)
    \/ \E cnonce \in StreamCnonceInputs : StreamResume(cnonce)
    \/ StreamThrow
    \/ AsyncUnloadEntry
    \/ \E h \in loop_timers : TimerExpire(h)
    \/ Tick
    \/ AddStateListener("e1")
    \/ AddChannelListener("n1")

SpecDeliver == Init /\ [][NextDeliver]_vars

\* The supervisor on a running loop, which runs a task whose cancel() was
\* called (weak fairness of StreamThrow), the device rejecting with one
\* challenge.
NextStreamLoop ==
    \/ \E data \in StreamEntryDataInputs :
         \E channels \in StreamDiscoveryInputs :
            AsyncSetupEntry(data, channels)
    \/ StreamRespond(200, None)
    \/ StreamRespond(401, HEADER_DIGEST_1)
    \/ StreamFail
    \/ StreamComplete
    \/ SleepElapsed
    \/ StreamChunk(DOCUMENT_ACTIVE)
    \/ StreamEnd
    \/ \E cnonce \in StreamCnonceInputs : StreamResume(cnonce)
    \/ StreamThrow
    \/ AsyncUnloadEntry

SpecStreamLoop ==
    /\ Init
    /\ [][NextStreamLoop]_vars
    /\ WF_vars(StreamThrow)


(* ------------------------------- claims ------------------------------- *)

\* The spellings of the inputs, as the claims read them.
ActiveSpellings == { ACTIVE, <<"A", "c", "t", "i", "v", "e">> }

InactiveSpellings == { INACTIVE, <<"I", "N", "A", "C", "T", "I", "V", "E">> }

HumanSpellings == { HUMAN, <<"H", "u", "m", "a", "n">> }

VehicleSpellings == { VEHICLE, <<"V", "E", "H", "I", "C", "L", "E">> }

IsActiveEvent(event) ==
    IsProcessed(event) /\ event.event_state \in ActiveSpellings

IsInactiveEvent(event) ==
    IsProcessed(event) /\ event.event_state \in InactiveSpellings

Known(c) == c \in DOMAIN states

Flag(sts, c, f) == c \in DOMAIN sts /\ sts[c][f]

\* C1: in every reachable state, each channel has at most one pending
\* (scheduled, not cancelled, not yet run) auto-off timer.
C1_AtMostOnePendingTimer ==
    \A c \in Channels : Cardinality(Pending(c)) <= 1

\* Both channels have a pending timer, and the one of channel 1 replaced an
\* earlier one.
C1_Witness ==
    /\ Pending(1) # {} /\ Pending(2) # {}
    /\ hist[1].phase = "armed" /\ hist[1].cancelled

\* C2: an active event sets the motion flag, sets the human (vehicle) flag
\* when its target is human (vehicle) in any spelling, and leaves a target
\* flag that was set before set.
C2_ActiveSetsAndKeepsFlags ==
    [][\A event \in FieldEventInputs :
         IsActiveEvent(event) /\ ProcessEvent(event) =>
           LET c == event.channel_id.value
           IN  /\ states'[c].motion_on
               /\ states'[c].human_on =
                    (Flag(states, c, "human_on")
                       \/ event.target_type \in HumanSpellings)
               /\ states'[c].vehicle_on =
                    (Flag(states, c, "vehicle_on")
                       \/ event.target_type \in VehicleSpellings)]_vars

\* After active(human) then active(vehicle) on channel 1, with its timer
\* still pending: motion, human and vehicle are all set.
C2_Witness ==
    /\ Known(1)
    /\ states[1].motion_on /\ states[1].human_on /\ states[1].vehicle_on
    /\ states[1].last_event_state = ACTIVE
    /\ states[1].last_target_type = VEHICLE
    /\ Pending(1) # {}

\* C3: a timer callback runs for a channel only when the channel's latest
\* active event scheduled a timer (timeout T > 0) and the time is at least
\* that event's arrival time plus T: the timer of an earlier active event
\* never clears what a later one has set.
C3_NoExpiryBeforeDeadline ==
    [][\A h \in loop_timers :
         TimerExpire(h) =>
           /\ hist[h.ch].phase = "armed"
           /\ hist[h.ch].delay > 0
           /\ now >= hist[h.ch].deadline]_vars

\* A timer has expired on a channel whose latest active event, arriving after
\* time 0, had replaced a pending timer.
C3_Witness ==
    \E c \in Channels :
       /\ hist[c].phase = "expired" /\ hist[c].cancelled
       /\ hist[c].deadline - hist[c].delay > 0
       /\ Known(c) /\ ~states[c].motion_on

\* The calls _notify_state(channel_id) makes when the channel's state is seen.
StateCallsFor(c, seen) ==
    [i \in DOMAIN entity_listeners |->
        Call("state", entity_listeners[i], c, seen)]

\* A timer is pending for channel c, scheduled by its latest active event and
\* due at d.
ArmedFor(c, d) ==
    hist[c].phase = "armed" /\ hist[c].deadline = d /\ Pending(c) # {}

\* A later event of channel c has replaced or cancelled the timer due at d.
Superseded(c, d) ==
    \/ hist[c].phase \in {"cleared", "held"}
    \/ hist[c].phase = "armed" /\ hist[c].deadline # d

\* C4 (what an expiry does): a timer callback runs only for a channel whose
\* latest active event scheduled a timer; it leaves the motion, human and
\* vehicle flags false, the diagnostic state "inactive" and no timer pending
\* for the channel, and calls each registered state listener exactly once,
\* seeing that state.
C4_ExpiryEffect ==
    [][\A h \in loop_timers :
         TimerExpire(h) =>
           /\ hist[h.ch].phase = "armed"
           /\ hist'[h.ch].phase = "expired"
           /\ ~states'[h.ch].motion_on
           /\ ~states'[h.ch].human_on
           /\ ~states'[h.ch].vehicle_on
           /\ states'[h.ch].last_event_state = INACTIVE
           /\ states'[h.ch].off_timer = NoTimer
           /\ \A g \in loop_timers' : g.ch # h.ch
           /\ calls' = StateCallsFor(h.ch, states'[h.ch])]_vars

\* C4 (the expiry happens): a timer scheduled by an active event and due
\* within the clock's range eventually expires, unless a later event of the
\* channel replaces or cancels it.
C4_ExpiryHappens ==
    \A c \in Channels : \A d \in 1..MaxTime :
       ArmedFor(c, d) ~> (hist[c].phase = "expired" \/ Superseded(c, d))

\* C4: if a channel with timeout T > 0 receives an active event and no
\* further event, the timer eventually expires, exactly once: the three flags
\* become false, the diagnostic state "inactive", every state listener is
\* notified exactly once for the expiry and no timer remains pending.
C4_TimerExpiresOnce == C4_ExpiryEffect /\ C4_ExpiryHappens

\* The timer of channel 1 has just expired with two state listeners
\* registered: both were called, the flags are clear.
C4_Witness ==
    /\ hist[1].phase = "expired"
    /\ Known(1) /\ ~states[1].motion_on /\ ~states[1].human_on
    /\ states[1].last_event_state = INACTIVE
    /\ states[1].last_target_type = HUMAN
    /\ Pending(1) = {}
    /\ Len(entity_listeners) = 2
    /\ calls = StateCallsFor(1, states[1])

\* C5: an inactive event leaves the channel's three flags false and no
\* timer pending for it, and no timer callback runs for the channel while its
\* latest active or inactive event is an inactive one.
C5_InactiveClearsAndCancels ==
    [][/\ \A event \in EventInputs :
            IsInactiveEvent(event) /\ ProcessEvent(event) =>
              LET c == event.channel_id.value
              IN  /\ ~states'[c].motion_on
                  /\ ~states'[c].human_on
                  /\ ~states'[c].vehicle_on
                  /\ states'[c].off_timer = NoTimer
                  /\ \A g \in loop_timers' : g.ch # c
       /\ \A h \in loop_timers :
            TimerExpire(h) => hist[h.ch].phase # "cleared"]_vars

\* An inactive event cancelled the pending timer of channel 1, and the time
\* that timer was due has come: the channel is as the inactive event left it.
C5_Witness ==
    /\ hist[1].phase = "cleared" /\ hist[1].cancelled
    /\ hist[1].deadline > 0 /\ now >= hist[1].deadline
    /\ Known(1) /\ ~states[1].motion_on
    /\ states[1].last_event_datetime = T2
    /\ Pending(1) = {}

IsStateCall(call) == call.kind = "state"

\* In a list of calls, those to "new channel" listeners come before those to
\* state listeners.
ChannelCallsFirst(cs) ==
    \A i, j \in DOMAIN cs :
       cs[i].kind = "channel" /\ cs[j].kind = "state" => i < j

\* C7: every processed event (a motion event with an integer channel id)
\* calls each registered state listener exactly once with the channel id,
\* after all other effects of the event: each call sees the channel's flags,
\* diagnostic fields and timer as the event leaves them.
C7_EveryEventNotifiesOnce ==
    [][\A event \in NotifyEventInputs :
         IsProcessed(event) /\ ProcessEvent(event) =>
           LET c == event.channel_id.value
           IN  /\ SelectSeq(calls', IsStateCall) = StateCallsFor(c, states'[c])
               /\ ChannelCallsFirst(calls')]_vars

\* An event that is neither active nor inactive reached channel 1 before any
\* flag was set: no flag changed, and both state listeners were called.
C7_Witness ==
    /\ Known(1) /\ ~states[1].motion_on
    /\ states[1].last_event_state = <<"i", "d", "l", "e">>
    /\ hist[1].phase = "none"
    /\ Len(entity_listeners) = 2
    /\ calls = StateCallsFor(1, states[1])

IsOtherEvent(event) ==
    /\ IsProcessed(event)
    /\ event.event_state \notin ActiveSpellings \cup InactiveSpellings

\* What a diagnostic field holds for a state or target of the inputs: the
\* value in lower case, and None for a missing or empty one.
Stored(v) ==
    CASE v = <<"I", "d", "l", "e">> -> <<"i", "d", "l", "e">>
      [] v = <<"H", "u", "m", "a", "n">> -> HUMAN
      [] v = EMPTY -> None
      [] OTHER -> v

ClampedTo_0_1800(seconds) ==
    IF seconds < MIN_OFF_DELAY_SECONDS THEN MIN_OFF_DELAY_SECONDS
    ELSE IF seconds > MAX_OFF_DELAY_SECONDS THEN MAX_OFF_DELAY_SECONDS
    ELSE seconds

\* C9: a change of a channel's timeout leaves every channel state and every
\* pending timer, with its expiry time, as it was; the next active event of
\* the channel schedules its timer with the value last set, clamped to
\* [0, 1800] (no timer when that is 0).
C9_TimeoutAppliesToNextTimer ==
    [][/\ \A p \in SetTimeoutInputs :
            SetTimeout(p[1], p[2]) =>
              /\ loop_timers' = loop_timers
              /\ states' = states
              /\ get_channel_timeout(p[1])' = ClampedTo_0_1800(p[2])
       /\ \A event \in EventInputs :
            /\ IsActiveEvent(event) /\ ProcessEvent(event)
            /\ event.channel_id.value \in DOMAIN requested
            => LET c == event.channel_id.value
                   T == ClampedTo_0_1800(requested[c])
                   mine == {g \in loop_timers' : g.ch = c}
               IN  IF T > 0
                   THEN \E g \in mine :
                           /\ mine = {g}
                           /\ g.when = now + T
                           /\ states'[c].off_timer = g.id
                   ELSE mine = {}]_vars

\* The timeout of channel 1 was set above the range while its timer was
\* pending: the timer is still due at the time it was scheduled for.
C9_Witness ==
    /\ 1 \in DOMAIN requested /\ requested[1] > MAX_OFF_DELAY_SECONDS
    /\ hist[1].phase = "armed" /\ hist[1].delay # get_channel_timeout(1)
    /\ \E h \in Pending(1) : h.when = hist[1].deadline

\* The calls get_state(c) makes when it creates channel c.
ChannelCallsFor(c) ==
    [i \in DOMAIN channel_listeners |->
        Call("channel", channel_listeners[i], c, ChannelState(c))]

\* The calls to "new channel" listeners about channel c among cs.
ChannelCallsAbout(cs, c) ==
    SelectSeq(cs, LAMBDA call : call.kind = "channel" /\ call.channel_id = c)

\* C10: a channel state, once created, stays; the "new channel" listeners
\* are called about a channel id in the one operation that creates its state
\* (a discovery or an event), each once, seeing the fresh state, and before
\* any state listener is called; no other operation calls them about it.
C10_NewChannelNotifiedOnce ==
    [][\A c \in Channels :
         /\ Known(c) => c \in DOMAIN states'
         /\ ChannelCallsAbout(calls', c) =
              IF ~Known(c) /\ c \in DOMAIN states'
              THEN ChannelCallsFor(c) ELSE <<>>
         /\ ChannelCallsFirst(calls')]_vars

\* The first event of channel 1, an active one, created its state with a
\* "new channel" listener and a state listener registered: the first was
\* called about channel 1, then the second.
C10_Witness ==
    /\ channel_listeners # <<>> /\ entity_listeners # <<>>
    /\ Known(1)
    /\ states[1].motion_on
    /\ calls = ChannelCallsFor(1) \o StateCallsFor(1, states[1])

\* The value of the field called name in an Authorization value.
Field(value, name) ==
    LET parts == value[2]
    IN  parts[CHOOSE i \in DOMAIN parts : parts[i][1] = name][2]

HexAlphabet ==
    <<"0", "1", "2", "3", "4", "5", "6", "7", "8", "9",
      "a", "b", "c", "d", "e", "f">>

\* The number a string of hexadecimal digits denotes.
RECURSIVE HexValue(_)
HexValue(text) ==
    IF text = <<>> THEN 0
    ELSE 16 * HexValue(SubSeq(text, 1, Len(text) - 1))
           + (CHOOSE i \in 0..15 : HexAlphabet[i + 1] = text[Len(text)])

\* The task starts sleeping, and it issues an HTTP request.
EntersSleep == task.pc # "sleep" /\ task'.pc = "sleep"

OpensConnection == task'.pc \in {"request", "retry"} /\ task'.pc # task.pc

\* The waits of consecutive failed connections with base delay 5 and cap 60.
WAITS == <<5, 10, 20, 40, 60, 60, 60>>

\* C11: with the default reconnect delay of 5 seconds, the n-th of
\* consecutive stream_alerts calls that failed and delivered no event is
\* followed by a sleep of 5, 10, 20, 40, 60, 60, 60, ... seconds; with any
\* reconnect delay, each of these sleeps but the first lasts twice the
\* previous one, and at most 60 seconds.
C11_BackoffDoubles ==
    [][EntersSleep /\ ~task'.tainted =>
         /\ task'.reconnect_delay = 5 =>
              task'.wait = IF task'.fails <= Len(WAITS)
                           THEN WAITS[task'.fails] ELSE 60
         /\ task'.fails > 1 =>
              task'.wait = IF 2 * task.wait <= 60 THEN 2 * task.wait
                           ELSE 60]_vars

\* The task sleeps 60 seconds for the second time in a row.
C11_Witness ==
    /\ task.pc = "sleep" /\ task.reconnect_delay = 5 /\ ~task.tainted
    /\ task.fails = 6 /\ task.wait = 60 /\ task.backoff = 60

\* C12: a stream_alerts call that passed at least one decoded event to the
\* callback and then failed is followed by a sleep of the reconnect delay,
\* the base.
C12_DeliveryResetsBackoff ==
    [][EntersSleep /\ task.delivered =>
         task'.wait = task'.reconnect_delay]_vars

\* C13: once the stop event is set the task issues no HTTP request, and the
\* only step it takes ends it.
C13_NoConnectionAfterStop ==
    [][stop_event =>
         /\ ~OpensConnection
         /\ task' # task => task'.pc \in {"done", "cancelled"}]_vars

\* The entry was unloaded while the task was about to reconnect, its sleep
\* over, and the task ended.
C13_Witness ==
    /\ stop_event /\ IsOver(task)
    /\ task.was = "sleep" /\ task.had = Completed /\ task.fails > 0

\* C14: once the stop event is set the task starts no sleep, whatever the
\* read it awaited gave.
C14_NoSleepAfterStop ==
    [][stop_event => ~EntersSleep]_vars

\* The entry was unloaded when the read of the stream had failed and the
\* task had not run yet, and the task ended without a sleep.
C14_Witness ==
    /\ stop_event /\ IsOver(task)
    /\ task.was = "read" /\ task.had = Raised /\ task.fails = 0

\* C15: a task whose cancel() was called ends at its next run with
\* CancelledError, wherever it was suspended, and once the entry is unloaded
\* the task ends.
C15_CancellationEndsTask ==
    /\ [][task.must_cancel /\ task' # task =>
            task'.pc = "cancelled" /\ ~OpensConnection /\ ~EntersSleep]_vars
    /\ (stop_event ~> IsOver(task))

\* The entry was unloaded while the task awaited the response to its HTTP
\* request, and the task ended cancelled.
C15_Witness ==
    /\ stop_event /\ task.pc = "cancelled"
    /\ task.was = "request" /\ task.had = Awaiting

\* The nonce of the challenges.
NonceOf(header) ==
    IF header = HEADER_DIGEST_1 THEN <<"n", "1">> ELSE <<"n", "2">>

\* C16: a stream_alerts call issues at most two HTTP requests, the second
\* only after a 401 to the first; when that 401 carried a challenge, the
\* second request carries credentials computed for the nonce of that
\* challenge with nonce-count 1; _request returns the first response unless
\* it is a 401, and else the second response, whatever its status.
C16_RetriesOnce ==
    /\ Len(task.sent) <= 2
    /\ Len(task.got) <= Len(task.sent)
    /\ Len(task.sent) = 2 =>
         /\ task.got[1].status = 401
         /\ task.got[1].header \in HasCredentials =>
              /\ task.sent[2] # None
              /\ Field(task.sent[2], "nonce") = NonceOf(task.got[1].header)
              /\ HexValue(Field(task.sent[2], "nc")) = 1
    /\ task.pc \in {"text", "read"} /\ task.got # <<>> =>
         /\ task.response = task.got[Len(task.got)]
         /\ Len(task.got) = IF task.got[1].status = 401 THEN 2 ELSE 1

\* The retry of a request that carried credentials of an older challenge was
\* rejected again, and stream_alerts got that 401.
C16_Witness ==
    /\ task.pc = "text" /\ Len(task.got) = 2
    /\ task.sent[1] # None /\ task.sent[2] # None
    /\ Field(task.sent[1], "nonce") # Field(task.sent[2], "nonce")
    /\ task.response.status = 401

\* C17: a build_authorization call that returns credentials increments the
\* nonce-count by one, and the credentials carry, as eight hexadecimal
\* digits, the number of credentials computed under the challenge so far
\* (1, 2, 3, ...); a call that returns none leaves the count; an
\* update_from_header call sets the count to zero when its header is a digest
\* challenge with realm and nonce and leaves the whole state unchanged when
\* it is not.
C17_NonceCountIncreases ==
    [][/\ \A header \in HeaderInputs :
            UpdateFromHeader(header) =>
              IF header \in HasRealmAndNonce
              THEN digest'.nc = 0 ELSE digest' = digest
       /\ \A uri \in {DEVICE_INFO_PATH, ALERT_STREAM_PATH} :
            \A cnonce \in CnonceInputs :
               BuildAuthorization(GET, uri, cnonce) =>
                 IF auth'.value = None
                 THEN digest' = digest
                 ELSE /\ digest'.nc = digest.nc + 1
                      /\ Len(Field(auth'.value, "nc")) = 8
                      /\ HexValue(Field(auth'.value, "nc")) = auth'.builds]_vars

\* The second credentials computed under the challenge of HEADER_DIGEST_2
\* carry nonce-count 2.
C17_Witness ==
    /\ auth.op = "build" /\ auth.value # None
    /\ Field(auth.value, "nonce") = <<"n", "2">>
    /\ auth.builds = 2 /\ digest.nc = 2
    /\ HexValue(Field(auth.value, "nc")) = 2

\* C18: once update_from_header was given a challenge with a realm and a
\* nonce, every build_authorization call returns an Authorization value.
C18_CredentialsOnceChallenged ==
    [][\A uri \in {DEVICE_INFO_PATH, ALERT_STREAM_PATH} :
         \A cnonce \in CnonceInputs :
            BuildAuthorization(GET, uri, cnonce) /\ auth.challenged =>
              auth'.value # None]_vars


\* C19: a finished validate_device_info() call returned true exactly when
\* its probe ended with status 200, and returned false, and did not raise,
\* when a request or the read of the body failed with a transport error.
C19_ProbeReturnsBoolean ==
    probe.pc = "ended" /\ probe.result # "none" =>
      /\ probe.result = "true" <=> (~probe.failed /\ probe.response.status = 200)
      /\ probe.failed => probe.result = "false"


\* C20: a document delivered whole to a fresh extractor in one chunk or in
\* two, wherever the bytes are split, makes the extractor emit exactly one
\* document, the one it emits when fed the same bytes as a single chunk.
C20_SplitDocumentEmittedOnce ==
    wire.doc # <<>> /\ wire.rest = <<>> /\ wire.chunks \in {1, 2} =>
      /\ Len(wire.emitted) = 1
      /\ wire.emitted = feed(EMPTY, wire.doc).docs

\* The step in which stream_alerts feeds the chunk it awaited to the parser
\* and passes the decoded events to the callback.
Feeds(chunk) ==
    /\ task.pc = "read" /\ task.fut = Chunk /\ task.chunk = chunk
    /\ ~task.must_cancel
    /\ task'.fut # task.fut

\* C21: a document that does not parse or has another root gives no event;
\* a chunk holding such a document, or a motion event whose channel id is no
\* integer, changes no channel state, no timer and no listener and calls no
\* listener, and stream_alerts awaits the next chunk of the same connection:
\* no exception, no sleep, no new request.
C21_MalformedPayloadDropped ==
    [][\A chunk \in MalformedChunkInputs :
         Feeds(chunk) =>
           /\ \A doc \in MalformedDocumentInputs :
                 ~parse_event_notification(doc).parsed
           /\ decoded_events(feed(EMPTY, DOCUMENT_UNCLOSED).docs) = <<>>
           /\ parse_event_notification(DOCUMENT_NO_CHANNEL).parsed
           /\ parse_event_notification(DOCUMENT_NO_CHANNEL).event.event_type
                = EVENT_TYPE_VMD
           /\ ~parse_event_notification(DOCUMENT_NO_CHANNEL)
                 .event.channel_id.is_int
           /\ states' = states /\ loop_timers' = loop_timers
           /\ hist' = hist /\ timeouts' = timeouts
           /\ entity_listeners' = entity_listeners
           /\ channel_listeners' = channel_listeners
           /\ calls' = <<>>
           /\ task'.pc = "read" /\ task'.fut = Awaiting
           /\ task'.fails = task.fails /\ task'.wait = task.wait
           /\ task'.backoff = task.backoff
           /\ parser'.buffer = EMPTY]_vars

\* The chunk with the unclosed document was fed while channel 1 had motion
\* and a pending timer and both kinds of listeners were registered; the
\* connection is open.
C21_Witness ==
    /\ task.fed = DOCUMENT_UNCLOSED /\ task.pc = "read"
    /\ Known(1) /\ states[1].motion_on /\ Pending(1) # {}
    /\ entity_listeners # <<>> /\ channel_listeners # <<>>
    /\ calls = <<>> /\ ~stop_event

\* C22: the events of a chunk are applied in the order of their documents,
\* each completely (flags, diagnostic fields, timer, listener calls)
\* before the next: after an active and then an inactive event of channel 1
\* the channel is cleared and has no timer, and the first listener call saw
\* the motion flag and the timer of the active event; after an inactive and
\* then an active event the channel has motion and a timer due a timeout
\* from now, and the first listener call saw the channel cleared.
C22_EventsInArrivalOrder ==
    [][/\ Feeds(DOCUMENT_ACTIVE_1 \o DOCUMENT_INACTIVE_1) =>
            /\ ~states'[1].motion_on /\ ~states'[1].human_on
            /\ states'[1].last_event_state = INACTIVE
            /\ states'[1].last_event_datetime = T2
            /\ states'[1].off_timer = NoTimer
            /\ \A h \in loop_timers' : h.ch # 1
            /\ Len(calls') = 2 * Len(entity_listeners)
            /\ \A i \in DOMAIN entity_listeners :
                  /\ IsStateCall(calls'[i])
                  /\ calls'[i].listener = entity_listeners[i]
                  /\ calls'[i].seen.motion_on /\ calls'[i].seen.human_on
                  /\ calls'[i].seen.last_event_datetime = T1
                  /\ calls'[i].seen.off_timer # NoTimer
                  /\ calls'[Len(entity_listeners) + i].seen = states'[1]
       /\ Feeds(DOCUMENT_INACTIVE_1 \o DOCUMENT_ACTIVE_1) =>
            /\ states'[1].motion_on /\ states'[1].human_on
            /\ states'[1].last_event_state = ACTIVE
            /\ states'[1].last_event_datetime = T1
            /\ \E h \in loop_timers' :
                  /\ h.id = states'[1].off_timer /\ h.ch = 1
                  /\ h.when = now + get_channel_timeout(1)
                  /\ \A g \in loop_timers' : g.ch = 1 => g = h
            /\ Len(calls') = 2 * Len(entity_listeners)
            /\ \A i \in DOMAIN entity_listeners :
                  /\ IsStateCall(calls'[i])
                  /\ calls'[i].listener = entity_listeners[i]
                  /\ ~calls'[i].seen.motion_on /\ ~calls'[i].seen.human_on
                  /\ calls'[i].seen.last_event_datetime = T2
                  /\ calls'[i].seen.off_timer = NoTimer
                  /\ calls'[Len(entity_listeners) + i].seen = states'[1]
       /\ \A chunk \in EventChunkInputs :
            Feeds(chunk) => task'.pc = "read" /\ task'.fed = chunk]_vars

\* A chunk with an active and then an inactive document was fed while the
\* channel had a pending timer: the listener was called twice, first seeing
\* the motion of the active event, and the timer is cancelled.
C22_Witness ==
    /\ task.fed = DOCUMENT_ACTIVE_1 \o DOCUMENT_INACTIVE_1
    /\ Len(calls) = 2 /\ calls[1].seen.motion_on /\ ~calls[2].seen.motion_on
    /\ hist[1].phase = "cleared" /\ hist[1].cancelled
    /\ Known(1) /\ ~states[1].motion_on /\ loop_timers = {}

\* The text the parser of the connection was fed so far.
Consumed == SubSeq(wire.doc, 1, Len(wire.doc) - Len(wire.rest))

\* A document is one span: it begins with the start marker and its only end
\* marker is its end.
IsSpan(doc) ==
    /\ SubSeq(doc, 1, Len(START_TOKEN)) = START_TOKEN
    /\ Find(doc, END_TOKEN, 0) = Len(doc) - Len(END_TOKEN)

\* Where the documents docs end in text when each of them begins at the
\* first start marker at or after the end of the one before it (from, for
\* the first); -1 when they do not lie in text like that.
RECURSIVE EndOfSpans(_, _, _)
EndOfSpansAt(text, docs, start) ==
    IF start < 0 THEN -1
    ELSE IF SubSeq(text, start + 1, start + Len(Head(docs))) # Head(docs)
    THEN -1
    ELSE EndOfSpans(text, Tail(docs), start + Len(Head(docs)))

EndOfSpans(text, docs, from) ==
    IF docs = <<>> THEN from
    ELSE EndOfSpansAt(text, docs, Find(text, START_TOKEN, from))

\* left, the text after the last document, holds no complete span (start is
\* where its first start marker is) and the buffer is left from that marker
\* on, or all of left when there is none.
IsLeft(buffer, left, start) ==
    IF start < 0 THEN buffer = left
    ELSE Find(left, END_TOKEN, start) < 0 /\ buffer = From(left, start)

IsLeftAfter(buffer, text, end) ==
    /\ end >= 0
    /\ IsLeft(buffer, From(text, end), Find(From(text, end), START_TOKEN, 0))

\* C23: the documents the feed calls of a connection returned are, in
\* order, the complete spans of the text fed: each runs from a start marker
\* to the first end marker after it and begins at the first start marker
\* after the document before it, so that none is left out and none returned
\* twice; the text after the last of them holds no complete span, and the
\* buffer is that text from its first start marker on: it holds no start
\* marker, or begins with one that no end marker follows.
C23_SpansEmittedOnce ==
    wire.chunks > 0 =>
      /\ \A i \in DOMAIN wire.emitted : IsSpan(wire.emitted[i])
      /\ IsLeftAfter(parser.buffer, Consumed,
                     EndOfSpans(Consumed, wire.emitted, 0))
      /\ \/ Find(parser.buffer, START_TOKEN, 0) < 0
         \/ /\ Find(parser.buffer, START_TOKEN, 0) = 0
            /\ Find(parser.buffer, END_TOKEN, 0) < 0

\* The text with two documents was fed in four chunks: both documents were
\* returned, the text before and between them is gone, and the buffer holds
\* the beginning of the third.
C23_Witness ==
    /\ wire.chunks = 4 /\ wire.rest = <<>> /\ wire.doc # <<>>
    /\ wire.emitted = <<SPAN_A, SPAN_B>>
    /\ parser.buffer = START_TOKEN \o <<">", "w">>

\* C24: after any feed calls the buffer is at most BUFFER_LIMIT characters
\* and one chunk long.
C24_BufferBounded ==
    Len(parser.buffer) <= BUFFER_LIMIT + NoiseLength

\* C25: in every reachable state, a channel whose human flag or vehicle flag
\* is set, or which has a pending auto-off timer (referenced by its state or
\* scheduled on the loop), has its motion flag set.
C25_FlagsImplyMotion ==
    /\ \A c \in DOMAIN states :
          (\/ states[c].human_on
           \/ states[c].vehicle_on
           \/ states[c].off_timer # NoTimer
           \/ Pending(c) # {}) => states[c].motion_on
    /\ \A h \in loop_timers : h.ch \in DOMAIN states

\* A channel holds the human flag and a timer that replaced an earlier one,
\* while the timer of another channel, set by a vehicle, has expired.
C25_Witness ==
    /\ Known(1) /\ Known(2)
    /\ states[1].human_on /\ states[1].motion_on
    /\ Pending(1) # {} /\ hist[1].phase = "armed" /\ hist[1].cancelled
    /\ hist[2].phase = "expired" /\ ~states[2].motion_on
    /\ ~states[2].vehicle_on

\* C26: a decoded event whose type is not "VMD" changes nothing: no channel
\* state is created for its channel and no "new channel" listener called, no
\* flag, diagnostic field or timer changes and no state listener is called.
C26_OtherTypeChangesNothing ==
    [][Feeds(DOCUMENT_VIDEOLOSS_2) =>
         /\ parse_event_notification(DOCUMENT_VIDEOLOSS_2).parsed
         /\ parse_event_notification(DOCUMENT_VIDEOLOSS_2).event.channel_id
              = IntChannel(2)
         /\ parse_event_notification(DOCUMENT_VIDEOLOSS_2).event.event_type
              # EVENT_TYPE_VMD
         /\ states' = states /\ loop_timers' = loop_timers
         /\ hist' = hist /\ calls' = <<>>
         /\ task'.pc = "read" /\ task'.fed = DOCUMENT_VIDEOLOSS_2]_vars

\* The event of another type, of channel 2, was passed to process_event
\* while listeners of both kinds were registered and channel 1 had a
\* pending timer: channel 2 has no state.
C26_Witness ==
    /\ task.fed = DOCUMENT_VIDEOLOSS_2 /\ task.delivered
    /\ ~Known(2) /\ Known(1) /\ Pending(1) # {}
    /\ entity_listeners # <<>> /\ channel_listeners # <<>>
    /\ calls = <<>>

\* C27: every sleep of the supervisor after a failed connection lasts at
\* most MAX_BACKOFF_SECONDS, for every reconnect delay the configuration
\* accepts and after any sequence of failures and of connections that ended
\* cleanly.
C27_WaitAtMostCap ==
    [][EntersSleep => task'.wait <= MAX_BACKOFF_SECONDS]_vars

\* C28: the supervisor opens a connection after an earlier one only out of
\* a sleep of at least the reconnect delay, also when the earlier connection
\* ended because the device closed the body.
C28_WaitsBeforeReconnect ==
    [][task'.pc = "request" /\ task.pc \notin {"created", "request"} =>
         task.pc = "sleep" /\ task.wait >= task.reconnect_delay]_vars

\* C29: once the entry is unloaded (stop event set, manager shut down, task
\* cancelled) no channel has a pending timer, and no step changes a channel
\* state, schedules a timer or calls a listener, whatever the task awaited
\* and whatever timers were due.
C29_NothingAfterUnload ==
    /\ [](stop_event =>
            /\ loop_timers = {}
            /\ \A c \in DOMAIN states : states[c].off_timer = NoTimer)
    /\ [][stop_event =>
            /\ states' = states /\ loop_timers' = loop_timers
            /\ calls' = <<>> /\ hist' = hist
            /\ task'.fed = task.fed /\ task'.sent = task.sent]_vars

\* The entry was unloaded while a chunk was ready for the task and a timer
\* of channel 1 was pending; the task ended by cancellation, the deadline of
\* the timer has passed and the channel still has its motion flag.
C29_Witness ==
    /\ stop_event /\ task.pc = "cancelled"
    /\ task.was = "read" /\ task.had = Chunk
    /\ hist[1].phase = "armed" /\ now >= hist[1].deadline
    /\ Known(1) /\ states[1].motion_on /\ loop_timers = {}

====
